---- MODULE Spec2Model ----
(***************************************************************************)
(* Control-plane access layer of the rtl8365mb switch driver: table query  *)
(* engine, entry codecs (forwarding database, ACL rule, VLAN4k) and the    *)
(* register-map locking around them.                                       *)
(***************************************************************************)
EXTENDS Integers, Sequences, FiniteSets, TLC

(***************************************************************************)
(* Bit arithmetic on unsigned words, as the C operators compute it.        *)
(***************************************************************************)
RECURSIVE And(_, _)
And(a, b) ==
    IF a = 0 \/ b = 0 THEN 0
    ELSE (a % 2) * (b % 2) + 2 * And(a \div 2, b \div 2)

RECURSIVE Or(_, _)
Or(a, b) ==
    IF a = 0 THEN b
    ELSE IF b = 0 THEN a
    ELSE (IF a % 2 = 1 \/ b % 2 = 1 THEN 1 ELSE 0) + 2 * Or(a \div 2, b \div 2)

RECURSIVE Xor(_, _)
Xor(a, b) ==
    IF a = 0 THEN b
    ELSE IF b = 0 THEN a
    ELSE (IF a % 2 = b % 2 THEN 0 ELSE 1) + 2 * Xor(a \div 2, b \div 2)

\* ~x truncated to a u16 when the result is stored into a u16
Not16(a) == 65535 - (a % 65536)

Shl(a, n) == a * (2 ^ n)
Shr(a, n) == a \div (2 ^ n)

\* BIT(n)
BIT(n) == 2 ^ n

\* __bf_shf(mask): index of the lowest set bit of the mask
RECURSIVE BfShf(_)
BfShf(mask) == IF mask % 2 = 1 THEN 0 ELSE 1 + BfShf(mask \div 2)

\* FIELD_PREP(mask, val) == ((val) << __bf_shf(mask)) & (mask)
FIELD_PREP(mask, val) == And(Shl(val, BfShf(mask)), mask)

\* FIELD_GET(mask, reg) == ((reg) & (mask)) >> __bf_shf(mask)
FIELD_GET(mask, reg) == Shr(And(reg, mask), BfShf(mask))

\* a bool used as an integer, and an integer stored into a bool
B2I(b) == IF b THEN 1 ELSE 0

\* F(x), with x computed once however often F uses it
With(x, F(_)) == CHOOSE y \in {F(v) : v \in {x}} : TRUE
I2B(v) == v # 0

(***************************************************************************)
(* Forwarding database entry layout (rtl8365mb_l2.c)                       *)
(***************************************************************************)
RTL8365MB_L2_UC_D0_MAC5_MASK == 255
RTL8365MB_L2_UC_D0_MAC4_MASK == 65280
RTL8365MB_L2_UC_D1_MAC3_MASK == 255
RTL8365MB_L2_UC_D1_MAC2_MASK == 65280
RTL8365MB_L2_UC_D2_MAC1_MASK == 255
RTL8365MB_L2_UC_D2_MAC0_MASK == 65280
RTL8365MB_L2_UC_D3_VID_MASK == 4095
RTL8365MB_L2_UC_D3_IVL_MASK == 8192
RTL8365MB_L2_UC_D3_PORT_EXT_MASK == 32768
RTL8365MB_L2_UC_D4_EFID_MASK == 7
RTL8365MB_L2_UC_D4_FID_MASK == 120
RTL8365MB_L2_UC_D4_SA_PRI_MASK == 128
RTL8365MB_L2_UC_D4_PORT_MASK == 1792
RTL8365MB_L2_UC_D4_AGE_MASK == 14336
RTL8365MB_L2_UC_D4_AUTH_MASK == 16384
RTL8365MB_L2_UC_D4_SA_BLOCK_MASK == 32768
RTL8365MB_L2_UC_D5_DA_BLOCK_MASK == 1
RTL8365MB_L2_UC_D5_PRIORITY_MASK == 14
RTL8365MB_L2_UC_D5_FWD_PRI_MASK == 16
RTL8365MB_L2_UC_D5_STATIC_MASK == 32

RTL8365MB_L2_MC_MAC5_MASK == 255
RTL8365MB_L2_MC_MAC4_MASK == 65280
RTL8365MB_L2_MC_MAC3_MASK == 255
RTL8365MB_L2_MC_MAC2_MASK == 65280
RTL8365MB_L2_MC_MAC1_MASK == 255
RTL8365MB_L2_MC_MAC0_MASK == 65280
RTL8365MB_L2_MC_VID_MASK == 4095
RTL8365MB_L2_MC_IVL_MASK == 8192
RTL8365MB_L2_MC_MBR_EXT1_MASK == 49152
RTL8365MB_L2_MC_MBR_MASK == 255
RTL8365MB_L2_MC_IGMPIDX_MASK == 65280
RTL8365MB_L2_MC_IGMP_ASIC_MASK == 1
RTL8365MB_L2_MC_PRIORITY_MASK == 14
RTL8365MB_L2_MC_FWD_PRI_MASK == 16
RTL8365MB_L2_MC_STATIC_MASK == 32
RTL8365MB_L2_MC_MBR_EXT2_MASK == 128

\* A zeroed u16 data[6]
ZeroData6 == [i \in 0..5 |-> 0]

\* The unpacking with the port taken from its three low bits only
data_to_uc_port_low(data) ==
    [key |-> [mac_addr |-> << FIELD_GET(RTL8365MB_L2_UC_D2_MAC0_MASK, data[2]),
                              FIELD_GET(RTL8365MB_L2_UC_D2_MAC1_MASK, data[2]),
                              FIELD_GET(RTL8365MB_L2_UC_D1_MAC2_MASK, data[1]),
                              FIELD_GET(RTL8365MB_L2_UC_D1_MAC3_MASK, data[1]),
                              FIELD_GET(RTL8365MB_L2_UC_D0_MAC4_MASK, data[0]),
                              FIELD_GET(RTL8365MB_L2_UC_D0_MAC5_MASK, data[0]) >>,
              efid |-> FIELD_GET(RTL8365MB_L2_UC_D4_EFID_MASK, data[4]),
              vid |-> FIELD_GET(RTL8365MB_L2_UC_D3_VID_MASK, data[3]),
              ivl |-> I2B(FIELD_GET(RTL8365MB_L2_UC_D3_IVL_MASK, data[3])),
              fid |-> FIELD_GET(RTL8365MB_L2_UC_D4_FID_MASK, data[4])],
     age |-> FIELD_GET(RTL8365MB_L2_UC_D4_AGE_MASK, data[4]),
     auth |-> I2B(FIELD_GET(RTL8365MB_L2_UC_D4_AUTH_MASK, data[4])),
     port |-> FIELD_GET(RTL8365MB_L2_UC_D4_PORT_MASK, data[4]),
     sa_pri |-> I2B(FIELD_GET(RTL8365MB_L2_UC_D4_SA_PRI_MASK, data[4])),
     fwd_pri |-> I2B(FIELD_GET(RTL8365MB_L2_UC_D5_FWD_PRI_MASK, data[5])),
     sa_block |-> I2B(FIELD_GET(RTL8365MB_L2_UC_D4_SA_BLOCK_MASK, data[4])),
     da_block |-> I2B(FIELD_GET(RTL8365MB_L2_UC_D5_DA_BLOCK_MASK, data[5])),
     priority |-> FIELD_GET(RTL8365MB_L2_UC_D5_PRIORITY_MASK, data[5]),
     is_static |-> I2B(FIELD_GET(RTL8365MB_L2_UC_D5_STATIC_MASK, data[5]))]

\* rtl8365mb_l2_data_to_uc: unpack a 6-word table entry into a unicast entry.
\* uc->port is a u8, the flags are bool.
rtl8365mb_l2_data_to_uc(data) ==
    [key |-> [mac_addr |-> << FIELD_GET(RTL8365MB_L2_UC_D2_MAC0_MASK, data[2]),
                              FIELD_GET(RTL8365MB_L2_UC_D2_MAC1_MASK, data[2]),
                              FIELD_GET(RTL8365MB_L2_UC_D1_MAC2_MASK, data[1]),
                              FIELD_GET(RTL8365MB_L2_UC_D1_MAC3_MASK, data[1]),
                              FIELD_GET(RTL8365MB_L2_UC_D0_MAC4_MASK, data[0]),
                              FIELD_GET(RTL8365MB_L2_UC_D0_MAC5_MASK, data[0]) >>,
              efid |-> FIELD_GET(RTL8365MB_L2_UC_D4_EFID_MASK, data[4]),
              vid |-> FIELD_GET(RTL8365MB_L2_UC_D3_VID_MASK, data[3]),
              ivl |-> I2B(FIELD_GET(RTL8365MB_L2_UC_D3_IVL_MASK, data[3])),
              fid |-> FIELD_GET(RTL8365MB_L2_UC_D4_FID_MASK, data[4])],
     age |-> FIELD_GET(RTL8365MB_L2_UC_D4_AGE_MASK, data[4]),
     auth |-> I2B(FIELD_GET(RTL8365MB_L2_UC_D4_AUTH_MASK, data[4])),
     port |-> Or(FIELD_GET(RTL8365MB_L2_UC_D4_PORT_MASK, data[4]),
                 Shl(FIELD_GET(RTL8365MB_L2_UC_D3_PORT_EXT_MASK, data[3]), 3)) % 256,
     sa_pri |-> I2B(FIELD_GET(RTL8365MB_L2_UC_D4_SA_PRI_MASK, data[4])),
     fwd_pri |-> I2B(FIELD_GET(RTL8365MB_L2_UC_D5_FWD_PRI_MASK, data[5])),
     sa_block |-> I2B(FIELD_GET(RTL8365MB_L2_UC_D4_SA_BLOCK_MASK, data[4])),
     da_block |-> I2B(FIELD_GET(RTL8365MB_L2_UC_D5_DA_BLOCK_MASK, data[5])),
     priority |-> FIELD_GET(RTL8365MB_L2_UC_D5_PRIORITY_MASK, data[5]),
     is_static |-> I2B(FIELD_GET(RTL8365MB_L2_UC_D5_STATIC_MASK, data[5]))]

\* rtl8365mb_l2_uc_to_data: pack a unicast entry into a zeroed 6-word entry.
rtl8365mb_l2_uc_to_data(uc) ==
    LET d0 == Or(FIELD_PREP(RTL8365MB_L2_UC_D0_MAC5_MASK, uc.key.mac_addr[6]),
                 FIELD_PREP(RTL8365MB_L2_UC_D0_MAC4_MASK, uc.key.mac_addr[5]))
        d1 == Or(FIELD_PREP(RTL8365MB_L2_UC_D1_MAC3_MASK, uc.key.mac_addr[4]),
                 FIELD_PREP(RTL8365MB_L2_UC_D1_MAC2_MASK, uc.key.mac_addr[3]))
        d2 == Or(FIELD_PREP(RTL8365MB_L2_UC_D2_MAC1_MASK, uc.key.mac_addr[2]),
                 FIELD_PREP(RTL8365MB_L2_UC_D2_MAC0_MASK, uc.key.mac_addr[1]))
        d3 == Or(Or(FIELD_PREP(RTL8365MB_L2_UC_D3_VID_MASK, uc.key.vid),
                    FIELD_PREP(RTL8365MB_L2_UC_D3_IVL_MASK, B2I(uc.key.ivl))),
                 FIELD_PREP(RTL8365MB_L2_UC_D3_PORT_EXT_MASK, Shr(uc.port, 3)))
        d4 == Or(Or(Or(FIELD_PREP(RTL8365MB_L2_UC_D4_FID_MASK, uc.key.fid),
                       FIELD_PREP(RTL8365MB_L2_UC_D4_EFID_MASK, uc.key.efid)),
                    Or(FIELD_PREP(RTL8365MB_L2_UC_D4_AGE_MASK, uc.age),
                       FIELD_PREP(RTL8365MB_L2_UC_D4_AUTH_MASK, B2I(uc.auth)))),
                 Or(Or(FIELD_PREP(RTL8365MB_L2_UC_D4_PORT_MASK, uc.port),
                       FIELD_PREP(RTL8365MB_L2_UC_D4_SA_PRI_MASK, B2I(uc.sa_pri))),
                    FIELD_PREP(RTL8365MB_L2_UC_D4_SA_BLOCK_MASK, B2I(uc.sa_block))))
        d5 == Or(Or(FIELD_PREP(RTL8365MB_L2_UC_D5_FWD_PRI_MASK, B2I(uc.fwd_pri)),
                    FIELD_PREP(RTL8365MB_L2_UC_D5_DA_BLOCK_MASK, B2I(uc.da_block))),
                 Or(FIELD_PREP(RTL8365MB_L2_UC_D5_PRIORITY_MASK, uc.priority),
                    FIELD_PREP(RTL8365MB_L2_UC_D5_STATIC_MASK, B2I(uc.is_static))))
    IN [i \in 0..5 |-> CASE i = 0 -> d0 [] i = 1 -> d1 [] i = 2 -> d2
                         [] i = 3 -> d3 [] i = 4 -> d4 [] OTHER -> d5]

\* rtl8365mb_l2_data_to_mc: unpack a 6-word table entry into a multicast
\* entry. mc->member is a u16.
rtl8365mb_l2_data_to_mc(data) ==
    [key |-> [mac_addr |-> << FIELD_GET(RTL8365MB_L2_MC_MAC0_MASK, data[2]),
                              FIELD_GET(RTL8365MB_L2_MC_MAC1_MASK, data[2]),
                              FIELD_GET(RTL8365MB_L2_MC_MAC2_MASK, data[1]),
                              FIELD_GET(RTL8365MB_L2_MC_MAC3_MASK, data[1]),
                              FIELD_GET(RTL8365MB_L2_MC_MAC4_MASK, data[0]),
                              FIELD_GET(RTL8365MB_L2_MC_MAC5_MASK, data[0]) >>,
              vid |-> FIELD_GET(RTL8365MB_L2_MC_VID_MASK, data[3]),
              ivl |-> I2B(FIELD_GET(RTL8365MB_L2_MC_IVL_MASK, data[3]))],
     priority |-> FIELD_GET(RTL8365MB_L2_MC_PRIORITY_MASK, data[5]),
     fwd_pri |-> I2B(FIELD_GET(RTL8365MB_L2_MC_FWD_PRI_MASK, data[5])),
     is_static |-> I2B(FIELD_GET(RTL8365MB_L2_MC_STATIC_MASK, data[5])),
     member |-> Or(Or(FIELD_GET(RTL8365MB_L2_MC_MBR_MASK, data[4]),
                      Shl(FIELD_GET(RTL8365MB_L2_MC_MBR_EXT1_MASK, data[3]), 8)),
                   Shl(FIELD_GET(RTL8365MB_L2_MC_MBR_EXT2_MASK, data[5]), 8)) % 65536,
     igmpidx |-> FIELD_GET(RTL8365MB_L2_MC_IGMPIDX_MASK, data[4]),
     igmp_asic |-> I2B(FIELD_GET(RTL8365MB_L2_MC_IGMP_ASIC_MASK, data[5]))]

\* rtl8365mb_l2_mc_to_data: pack a multicast entry into a zeroed 6-word
\* entry. The static bit is always written as 1.
rtl8365mb_l2_mc_to_data(mc) ==
    LET d0 == Or(FIELD_PREP(RTL8365MB_L2_MC_MAC5_MASK, mc.key.mac_addr[6]),
                 FIELD_PREP(RTL8365MB_L2_MC_MAC4_MASK, mc.key.mac_addr[5]))
        d1 == Or(FIELD_PREP(RTL8365MB_L2_MC_MAC3_MASK, mc.key.mac_addr[4]),
                 FIELD_PREP(RTL8365MB_L2_MC_MAC2_MASK, mc.key.mac_addr[3]))
        d2 == Or(FIELD_PREP(RTL8365MB_L2_MC_MAC1_MASK, mc.key.mac_addr[2]),
                 FIELD_PREP(RTL8365MB_L2_MC_MAC0_MASK, mc.key.mac_addr[1]))
        d3 == Or(Or(FIELD_PREP(RTL8365MB_L2_MC_VID_MASK, mc.key.vid),
                    FIELD_PREP(RTL8365MB_L2_MC_IVL_MASK, B2I(mc.key.ivl))),
                 FIELD_PREP(RTL8365MB_L2_MC_MBR_EXT1_MASK, Shr(mc.member, 8)))
        d4 == Or(FIELD_PREP(RTL8365MB_L2_MC_MBR_MASK, mc.member),
                 FIELD_PREP(RTL8365MB_L2_MC_IGMPIDX_MASK, mc.igmpidx))
        d5 == Or(Or(Or(FIELD_PREP(RTL8365MB_L2_MC_IGMP_ASIC_MASK, B2I(mc.igmp_asic)),
                       FIELD_PREP(RTL8365MB_L2_MC_PRIORITY_MASK, mc.priority)),
                    Or(FIELD_PREP(RTL8365MB_L2_MC_FWD_PRI_MASK, B2I(mc.fwd_pri)),
                       FIELD_PREP(RTL8365MB_L2_MC_STATIC_MASK, 1))),
                 FIELD_PREP(RTL8365MB_L2_MC_MBR_EXT2_MASK, Shr(mc.member, 10)))
    IN [i \in 0..5 |-> CASE i = 0 -> d0 [] i = 1 -> d1 [] i = 2 -> d2
                         [] i = 3 -> d3 [] i = 4 -> d4 [] OTHER -> d5]

(***************************************************************************)
(* Table access registers (rtl8365mb_table.c) and table selectors          *)
(* (rtl8365mb_table.h)                                                     *)
(***************************************************************************)
RTL8365MB_TABLE_READ_BASE == 1312
RTL8365MB_TABLE_WRITE_BASE == 1296
RTL8365MB_TABLE_READ_REG(x) == RTL8365MB_TABLE_READ_BASE + x
RTL8365MB_TABLE_WRITE_REG(x) == RTL8365MB_TABLE_WRITE_BASE + x
RTL8365MB_TABLE_ENTRY_MAX_SIZE == 10
RTL8365MB_TABLE_CTRL_REG == 1280
RTL8365MB_TABLE_CTRL_PORT_MASK == 3840
RTL8365MB_TABLE_CTRL_TARGET_MASK == 7
RTL8365MB_TABLE_CTRL_CMD_TYPE_MASK == 8
RTL8365MB_TABLE_CTRL_METHOD_MASK == 112
RTL8365MB_TABLE_ADDR_REG == 1281
RTL8365MB_TABLE_ADDR_MASK == 8191
RTL8365MB_TABLE_STATUS_REG == 1282
RTL8365MB_TABLE_STATUS_ADDRESS_EXT_MASK == 16384
RTL8365MB_TABLE_STATUS_BUSY_FLAG_MASK == 8192
RTL8365MB_TABLE_STATUS_HIT_STATUS_MASK == 4096
RTL8365MB_TABLE_STATUS_TYPE_MASK == 2048
RTL8365MB_TABLE_STATUS_ADDRESS_MASK == 2047

RTL8365MB_TABLE_ACL_RULE == 1
RTL8365MB_TABLE_ACL_ACTION == 2
RTL8365MB_TABLE_CVLAN == 3
RTL8365MB_TABLE_L2 == 4
RTL8365MB_TABLE_OP_READ == 0
RTL8365MB_TABLE_OP_WRITE == 1
RTL8365MB_TABLE_L2_METHOD_MAC == 0
RTL8365MB_TABLE_L2_METHOD_ADDR == 1
RTL8365MB_TABLE_L2_METHOD_ADDR_NEXT == 2
RTL8365MB_TABLE_L2_METHOD_ADDR_NEXT_UC == 3
RTL8365MB_TABLE_L2_METHOD_ADDR_NEXT_MC == 4
RTL8365MB_TABLE_L2_METHOD_ADDR_NEXT_UC_PORT == 7

RTL8365MB_LEARN_LIMIT_MAX == 2112

\* Port flush command registers (rtl8365mb_l2.c)
RTL8365MB_L2_FLUSH_PORT_REG == 2614
RTL8365MB_L2_FLUSH_PORT_MASK_MASK == 255
RTL8365MB_L2_FLUSH_PORT_BUSY_MASK == 65280
RTL8365MB_L2_FLUSH_PORT_EXT_REG == 2613
RTL8365MB_L2_FLUSH_PORT_EXT_MASK_MASK == 7
RTL8365MB_L2_FLUSH_PORT_EXT_BUSY_MASK == 56
RTL8365MB_L2_FLUSH_CTRL1_REG == 2615
RTL8365MB_L2_FLUSH_CTRL1_VID_MASK == 4095
RTL8365MB_L2_FLUSH_CTRL2_REG == 2616
RTL8365MB_L2_FLUSH_CTRL2_MODE_MASK == 3
RTL8365MB_L2_FLUSH_CTRL2_MODE_PORT == 0
RTL8365MB_L2_FLUSH_CTRL2_MODE_PORT_VID == 1
RTL8365MB_L2_FLUSH_CTRL2_TYPE_MASK == 4
RTL8365MB_L2_FLUSH_CTRL2_TYPE_DYNAMIC == 0

\* Number of status polls that fit into the busy-poll timeout
PollBudget == 3

\* A poll loop without a time-out
PollNeverTimesOut(polls) == FALSE

\* regmap_read_poll_timeout(): after a read that found the condition false,
\* the loop gives up with -ETIMEDOUT once its time is used up
PollTimedOut(polls) == polls >= PollBudget

\* The ten table window registers, zeroed
ZeroWindow == [i \in 0..9 |-> 0]

(***************************************************************************)
(* The switch chip as the table access registers present it.               *)
(*   wr, rd   the write and read window registers                          *)
(*   addr     the table address register                                   *)
(*   status   the table status register (without the busy flag)            *)
(*   busy     status reads that still report busy                          *)
(*   lat      status reads that report busy after each command             *)
(*   next     what a "next" look-up with no entry at or after the start    *)
(*            address answers: "wrap" (first entry of the table), "same"   *)
(*            (hit, the start address unchanged), "miss" (hit clear)       *)
(*   fports   the ports whose flush command is running                     *)
(*   fbusy    flush register reads that still report busy                  *)
(*   acl, act, cvlan, l2   the four tables, address -> ten-word row        *)
(*   regs     plain registers, address -> value                            *)
(***************************************************************************)
TblRow(tbl, a) == IF a \in DOMAIN tbl THEN tbl[a] ELSE ZeroWindow

TblPut(tbl, a, row) == [x \in (DOMAIN tbl) \cup {a} |-> IF x = a THEN row ELSE tbl[x]]

RegGet(regs, r) == IF r \in DOMAIN regs THEN regs[r] ELSE 0

Empty == [x \in {} |-> 0]

ChipReset(lat, next) ==
    [wr |-> ZeroWindow, rd |-> ZeroWindow, addr |-> 0, status |-> 0,
     busy |-> 0, lat |-> lat, next |-> next, fports |-> 0, fbusy |-> 0,
     acl |-> Empty, act |-> Empty, cvlan |-> Empty, l2 |-> Empty,
     regs |-> Empty]

\* The first six words of a window or a row: a forwarding database entry
Row6(row) == [i \in 0..5 |-> row[i]]

\* A forwarding database slot is occupied when its row is not all zero
L2Occupied(l2, a) == a \in DOMAIN l2 /\ l2[a] # ZeroWindow

\* is_multicast_ether_addr(): the group bit of the first address byte
L2IsMc(row) == And(FIELD_GET(RTL8365MB_L2_UC_D2_MAC0_MASK, row[2]), 1) = 1

\* The key of an entry: its address bytes, vid or fid and ivl flag, and for
\* a unicast entry fid and efid (a multicast entry has port members there)
L2KeyOf(row) ==
    << row[0], row[1], row[2],
       And(row[3], RTL8365MB_L2_UC_D3_VID_MASK + RTL8365MB_L2_UC_D3_IVL_MASK),
       IF L2IsMc(row) THEN 0
       ELSE And(row[4], RTL8365MB_L2_UC_D4_EFID_MASK + RTL8365MB_L2_UC_D4_FID_MASK) >>

\* The slots a look-up method considers
L2Match(l2, method, port) ==
    {a \in DOMAIN l2 :
        /\ L2Occupied(l2, a)
        /\ (method \in {RTL8365MB_TABLE_L2_METHOD_ADDR_NEXT_UC,
                        RTL8365MB_TABLE_L2_METHOD_ADDR_NEXT_UC_PORT}
              => ~L2IsMc(l2[a]))
        /\ (method = RTL8365MB_TABLE_L2_METHOD_ADDR_NEXT_MC => L2IsMc(l2[a]))
        /\ (method = RTL8365MB_TABLE_L2_METHOD_ADDR_NEXT_UC_PORT
              => rtl8365mb_l2_data_to_uc(Row6(l2[a])).port = port)}

SetMin(S) == CHOOSE x \in S : \A y \in S : x <= y

\* The status register value of a hit at a 13-bit entry address
StatusHit(a) ==
    Or(Or(RTL8365MB_TABLE_STATUS_HIT_STATUS_MASK,
          FIELD_PREP(RTL8365MB_TABLE_STATUS_ADDRESS_MASK, a)),
       Or(FIELD_PREP(RTL8365MB_TABLE_STATUS_ADDRESS_EXT_MASK, Shr(a, 11)),
          FIELD_PREP(RTL8365MB_TABLE_STATUS_TYPE_MASK, Shr(a, 12))))

\* A status register value with the hit flag clear keeps its other bits
StatusMiss(status) ==
    And(status, 65535 - RTL8365MB_TABLE_STATUS_HIT_STATUS_MASK)

\* A read command on the forwarding database
ChipExecL2Read(chip, method, port) ==
    LET l2 == chip.l2
        hit(a) == [chip EXCEPT !.status = StatusHit(a), !.rd = TblRow(l2, a)]
        miss == [chip EXCEPT !.status = StatusMiss(chip.status)]
    IN  IF method = RTL8365MB_TABLE_L2_METHOD_MAC
        THEN LET S == {a \in DOMAIN l2 :
                          L2Occupied(l2, a) /\ L2KeyOf(l2[a]) = L2KeyOf(chip.wr)}
             IN IF S = {} THEN miss ELSE hit(SetMin(S))
        ELSE IF method = RTL8365MB_TABLE_L2_METHOD_ADDR
        THEN IF L2Occupied(l2, chip.addr) THEN hit(chip.addr) ELSE miss
        ELSE LET M == L2Match(l2, method, port)
                 A == {a \in M : a >= chip.addr}
             IN IF A # {} THEN hit(SetMin(A))
                ELSE IF M = {} \/ chip.next = "miss" THEN miss
                ELSE IF chip.next = "wrap" THEN hit(SetMin(M))
                ELSE hit(chip.addr)

\* A write command on the forwarding database: the chip finds the slot by
\* the key of the entry in the write window
ChipExecL2Write(chip) ==
    LET l2 == chip.l2
        S == {a \in DOMAIN l2 :
                 L2Occupied(l2, a) /\ L2KeyOf(l2[a]) = L2KeyOf(chip.wr)}
        F == {a \in DOMAIN l2 : ~L2Occupied(l2, a)}
    IN  IF S # {}
        THEN [chip EXCEPT !.l2 = TblPut(l2, SetMin(S), chip.wr),
                          !.status = StatusHit(SetMin(S))]
        ELSE IF F # {}
        THEN [chip EXCEPT !.l2 = TblPut(l2, SetMin(F), chip.wr),
                          !.status = StatusHit(SetMin(F))]
        ELSE [chip EXCEPT !.status = StatusMiss(chip.status)]

\* A write of the table control register starts a command
ChipExec(chip, cmd) ==
    LET target == FIELD_GET(RTL8365MB_TABLE_CTRL_TARGET_MASK, cmd)
        type == FIELD_GET(RTL8365MB_TABLE_CTRL_CMD_TYPE_MASK, cmd)
        method == FIELD_GET(RTL8365MB_TABLE_CTRL_METHOD_MASK, cmd)
        port == FIELD_GET(RTL8365MB_TABLE_CTRL_PORT_MASK, cmd)
        c == [chip EXCEPT !.busy = chip.lat]
    IN  IF target = RTL8365MB_TABLE_L2
        THEN IF type = RTL8365MB_TABLE_OP_WRITE
             THEN ChipExecL2Write(c) ELSE ChipExecL2Read(c, method, port)
        ELSE IF target = RTL8365MB_TABLE_ACL_RULE
        THEN IF type = RTL8365MB_TABLE_OP_WRITE
             THEN [c EXCEPT !.acl = TblPut(c.acl, c.addr, c.wr)]
             ELSE [c EXCEPT !.rd = TblRow(c.acl, c.addr)]
        ELSE IF target = RTL8365MB_TABLE_ACL_ACTION
        THEN IF type = RTL8365MB_TABLE_OP_WRITE
             THEN [c EXCEPT !.act = TblPut(c.act, c.addr, c.wr)]
             ELSE [c EXCEPT !.rd = TblRow(c.act, c.addr)]
        ELSE IF target = RTL8365MB_TABLE_CVLAN
        THEN IF type = RTL8365MB_TABLE_OP_WRITE
             THEN [c EXCEPT !.cvlan = TblPut(c.cvlan, c.addr, c.wr)]
             ELSE [c EXCEPT !.rd = TblRow(c.cvlan, c.addr)]
        ELSE c

\* A port flush command: the entries learnt on the ports of the mask are
\* erased, static entries excepted, and in the port-and-VID mode only those
\* of the VID in the flush control register
ChipFlush(chip, ports) ==
    LET mode == FIELD_GET(RTL8365MB_L2_FLUSH_CTRL2_MODE_MASK,
                          RegGet(chip.regs, RTL8365MB_L2_FLUSH_CTRL2_REG))
        vid == FIELD_GET(RTL8365MB_L2_FLUSH_CTRL1_VID_MASK,
                         RegGet(chip.regs, RTL8365MB_L2_FLUSH_CTRL1_REG))
        gone(row) ==
            LET e == rtl8365mb_l2_data_to_uc(Row6(row))
            IN /\ row # ZeroWindow
               /\ ~L2IsMc(row)
               /\ ~e.is_static
               /\ And(ports, BIT(e.port)) # 0
               /\ (mode = RTL8365MB_L2_FLUSH_CTRL2_MODE_PORT_VID => e.key.vid = vid)
    IN  [chip EXCEPT !.fports = ports, !.fbusy = chip.lat,
                     !.l2 = [a \in DOMAIN chip.l2 |->
                                IF gone(chip.l2[a]) THEN ZeroWindow ELSE chip.l2[a]]]

\* A register write as the chip sees it
ChipWrite(chip, reg, val) ==
    IF reg = RTL8365MB_TABLE_CTRL_REG THEN ChipExec(chip, val)
    ELSE IF reg = RTL8365MB_L2_FLUSH_PORT_REG
    THEN ChipFlush(chip, FIELD_GET(RTL8365MB_L2_FLUSH_PORT_MASK_MASK, val))
    ELSE IF reg = RTL8365MB_L2_FLUSH_PORT_EXT_REG
    THEN ChipFlush(chip, Shl(FIELD_GET(RTL8365MB_L2_FLUSH_PORT_EXT_MASK_MASK, val), 8))
    ELSE IF reg = RTL8365MB_TABLE_ADDR_REG THEN [chip EXCEPT !.addr = val]
    ELSE IF reg \in {RTL8365MB_TABLE_WRITE_REG(i) : i \in 0..9}
    THEN [chip EXCEPT !.wr[reg - RTL8365MB_TABLE_WRITE_BASE] = val]
    ELSE [chip EXCEPT !.regs = TblPut(chip.regs, reg, val)]

\* The value a register read returns
ChipReadVal(chip, reg) ==
    IF reg = RTL8365MB_TABLE_STATUS_REG
    THEN IF chip.busy > 0
         THEN Or(chip.status, RTL8365MB_TABLE_STATUS_BUSY_FLAG_MASK)
         ELSE chip.status
    ELSE IF reg \in {RTL8365MB_TABLE_READ_REG(i) : i \in 0..9}
    THEN chip.rd[reg - RTL8365MB_TABLE_READ_BASE]
    ELSE IF reg = RTL8365MB_TABLE_ADDR_REG THEN chip.addr
    ELSE IF reg = RTL8365MB_L2_FLUSH_PORT_REG
    THEN IF chip.fbusy > 0
         THEN FIELD_PREP(RTL8365MB_L2_FLUSH_PORT_BUSY_MASK, And(chip.fports, 255))
         ELSE 0
    ELSE IF reg = RTL8365MB_L2_FLUSH_PORT_EXT_REG
    THEN IF chip.fbusy > 0
         THEN FIELD_PREP(RTL8365MB_L2_FLUSH_PORT_EXT_BUSY_MASK, Shr(chip.fports, 8))
         ELSE 0
    ELSE RegGet(chip.regs, reg)

\* The chip after a register read: a busy command gets one poll nearer its end
ChipAfterRead(chip, reg) ==
    IF reg = RTL8365MB_TABLE_STATUS_REG /\ chip.busy > 0 /\ chip.busy < PollBudget + 1
    THEN [chip EXCEPT !.busy = chip.busy - 1]
    ELSE IF /\ reg \in {RTL8365MB_L2_FLUSH_PORT_REG, RTL8365MB_L2_FLUSH_PORT_EXT_REG}
            /\ chip.fbusy > 0 /\ chip.fbusy < PollBudget + 1
    THEN [chip EXCEPT !.fbusy = chip.fbusy - 1]
    ELSE chip

(***************************************************************************)
(* rtl8365mb_table_query (rtl8365mb_table.c), one register operation per   *)
(* step.  A call is a record:                                              *)
(*   table, op, method, addr, port   the fields of the query               *)
(*   data                            the caller's buffer, 0..size-1        *)
(*   pc, i, cmd, val, hit, polls, ret   the position and locals of the     *)
(*                                   call; hit is -1 until it is assigned  *)
(*   log                             the register operations issued so far *)
(***************************************************************************)
TqSize(q) == Cardinality(DOMAIN q.data)

\* A call about to start
TqCall(table, op, method, addr, port, data) ==
    [table |-> table, op |-> op, method |-> method, addr |-> addr,
     port |-> port, data |-> data, pc |-> "entry", i |-> 0, cmd |-> 0,
     val |-> 0, hit |-> -1, polls |-> 0, ret |-> "none", log |-> << >>]

\* The command word: target table, read or write, and for reads of the
\* forwarding database the look-up method and the source port
TqCmd(q) ==
    LET base == Or(FIELD_PREP(RTL8365MB_TABLE_CTRL_TARGET_MASK, q.table),
                   FIELD_PREP(RTL8365MB_TABLE_CTRL_CMD_TYPE_MASK, q.op))
        l2rd == q.op = RTL8365MB_TABLE_OP_READ /\ q.table = RTL8365MB_TABLE_L2
        m == IF l2rd
             THEN Or(base, FIELD_PREP(RTL8365MB_TABLE_CTRL_METHOD_MASK, q.method))
             ELSE base
    IN  IF l2rd /\ q.method = RTL8365MB_TABLE_L2_METHOD_ADDR_NEXT_UC_PORT
        THEN Or(m, FIELD_PREP(RTL8365MB_TABLE_CTRL_PORT_MASK, q.port))
        ELSE m

\* A call that writes the address register whatever the table and method
TqAfterEntry_always_address(q) == "addrwr"

\* Where the call goes after the key words, after the entry words, after the
\* busy poll and after the status check
TqAfterEntry(q) ==
    IF q.table # RTL8365MB_TABLE_L2 \/ q.method # RTL8365MB_TABLE_L2_METHOD_MAC
    THEN "addrwr" ELSE "ctrl"

TqAfterKey(q) ==
    IF q.op = RTL8365MB_TABLE_OP_WRITE /\ TqSize(q) > 0
    THEN "entwr" ELSE TqAfterEntry(q)

\* A read that never writes the key words
TqAfterLock_no_key(q) == TqAfterKey(q)

TqAfterLock(q) ==
    IF /\ q.op = RTL8365MB_TABLE_OP_READ
       /\ q.table = RTL8365MB_TABLE_L2
       /\ q.method = RTL8365MB_TABLE_L2_METHOD_MAC
       /\ TqSize(q) > 0
    THEN "keywr" ELSE TqAfterKey(q)

\* After a successful status check or poll: read the entry, or finish
TqToRead(q) ==
    IF q.op = RTL8365MB_TABLE_OP_READ /\ TqSize(q) > 0
    THEN [q EXCEPT !.pc = "rdwin", !.i = 0]
    ELSE [q EXCEPT !.pc = "unlock", !.ret = "OK"]

\* A call that checks the status for every table
TqAfterPoll_status_always(q) == [q EXCEPT !.pc = "status"]

TqAfterPoll(q) ==
    IF q.table = RTL8365MB_TABLE_L2
    THEN [q EXCEPT !.pc = "status"] ELSE TqToRead(q)

\* The status check without the test of the hit flag
TqAfterStatus_hit_ignored(q, val) ==
    TqToRead([q EXCEPT
             !.val = val,
             !.hit = FIELD_GET(RTL8365MB_TABLE_STATUS_HIT_STATUS_MASK, val),
             !.addr = Or(Or(FIELD_GET(RTL8365MB_TABLE_STATUS_ADDRESS_MASK, val),
                            Shl(FIELD_GET(RTL8365MB_TABLE_STATUS_ADDRESS_EXT_MASK, val), 11)),
                         Shl(FIELD_GET(RTL8365MB_TABLE_STATUS_TYPE_MASK, val), 12))])

\* The status check with the extension bit and the type bit of the address
\* in each other's place
TqAfterStatus_bits_swapped(q, val) ==
    IF FIELD_GET(RTL8365MB_TABLE_STATUS_HIT_STATUS_MASK, val) = 0
    THEN [q EXCEPT !.pc = "unlock", !.ret = "ENOENT", !.val = val, !.hit = 0]
    ELSE TqToRead([q EXCEPT
             !.val = val,
             !.hit = FIELD_GET(RTL8365MB_TABLE_STATUS_HIT_STATUS_MASK, val),
             !.addr = Or(Or(FIELD_GET(RTL8365MB_TABLE_STATUS_ADDRESS_MASK, val),
                            Shl(FIELD_GET(RTL8365MB_TABLE_STATUS_ADDRESS_EXT_MASK, val), 12)),
                         Shl(FIELD_GET(RTL8365MB_TABLE_STATUS_TYPE_MASK, val), 11))])

\* The status check of the forwarding database: no hit is -ENOENT, a hit
\* yields the entry address
TqAfterStatus(q, val) ==
    IF FIELD_GET(RTL8365MB_TABLE_STATUS_HIT_STATUS_MASK, val) = 0
    THEN [q EXCEPT !.pc = "unlock", !.ret = "ENOENT", !.val = val, !.hit = 0]
    ELSE TqToRead([q EXCEPT
             !.val = val,
             !.hit = FIELD_GET(RTL8365MB_TABLE_STATUS_HIT_STATUS_MASK, val),
             !.addr = Or(Or(FIELD_GET(RTL8365MB_TABLE_STATUS_ADDRESS_MASK, val),
                            Shl(FIELD_GET(RTL8365MB_TABLE_STATUS_ADDRESS_EXT_MASK, val), 11)),
                         Shl(FIELD_GET(RTL8365MB_TABLE_STATUS_TYPE_MASK, val), 12))])

\* A read that stores every word as it was read
TqReadWord_verbatim(i, val) == val

\* The value stored for word i of a read: the last word of the biggest
\* entries keeps one nibble
TqReadWord(i, val) ==
    IF i = RTL8365MB_TABLE_ENTRY_MAX_SIZE - 1 THEN And(val, 15) ELSE val

\* A failed register operation that returns at once, the lock still held
TqFail_returns(q, entry) ==
    [q EXCEPT !.pc = "done", !.ret = "EIO", !.log = Append(q.log, entry)]

\* A failed register operation ends the call with the transport's error
TqFail(q, entry) ==
    [q EXCEPT !.pc = "unlock", !.ret = "EIO", !.log = Append(q.log, entry)]

\* The argument checks without the check of the size
TqArgCheck_no_size(q) ==
    IF q.table \notin {RTL8365MB_TABLE_ACL_RULE, RTL8365MB_TABLE_ACL_ACTION,
                       RTL8365MB_TABLE_CVLAN, RTL8365MB_TABLE_L2}
    THEN "EINVAL" ELSE "OK"

\* The argument checks: the size first, then the table of the switch
\* statement that picks the address argument
TqArgCheck(q) ==
    IF TqSize(q) > RTL8365MB_TABLE_ENTRY_MAX_SIZE THEN "E2BIG"
    ELSE IF q.table \notin {RTL8365MB_TABLE_ACL_RULE, RTL8365MB_TABLE_ACL_ACTION,
                            RTL8365MB_TABLE_CVLAN, RTL8365MB_TABLE_L2}
    THEN "EINVAL" ELSE "OK"

\* The register the call accesses next, for the steps that access one
TqReg(q) ==
    CASE q.pc \in {"keywr", "entwr"} -> RTL8365MB_TABLE_WRITE_REG(q.i)
      [] q.pc = "addrwr" -> RTL8365MB_TABLE_ADDR_REG
      [] q.pc = "ctrl" -> RTL8365MB_TABLE_CTRL_REG
      [] q.pc \in {"poll", "status"} -> RTL8365MB_TABLE_STATUS_REG
      [] q.pc = "rdwin" -> RTL8365MB_TABLE_READ_REG(q.i)
      [] OTHER -> 0

TqIsRegStep(q) == q.pc \in {"keywr", "entwr", "addrwr", "ctrl", "poll", "status", "rdwin"}

\* One step of the call: the argument checks, taking the lock, one register
\* operation (which fails when fail is TRUE), or releasing the lock.
\* Yields the call and the chip after the step.
TqStep(q, chip, fail) ==
    LET reg == TqReg(q)
        wr(v) == << "w", reg, v >>
        rdv == ChipReadVal(chip, reg)
        rd == << "r", reg, rdv >>
        wrfail(v) == << "wfail", reg, v >>
        rdfail == << "rfail", reg, 0 >>
        same(qq) == [q |-> qq, chip |-> chip]
    IN
    CASE q.pc = "entry" ->
           same(IF TqArgCheck(q) # "OK"
                THEN [q EXCEPT !.pc = "done", !.ret = TqArgCheck(q)]
                ELSE [q EXCEPT !.pc = "lock"])
      [] q.pc = "lock" ->
           same([q EXCEPT !.pc = TqAfterLock(q), !.cmd = TqCmd(q), !.i = 0])
      [] q.pc \in {"keywr", "entwr"} ->
           IF fail THEN same(TqFail(q, wrfail(q.data[q.i])))
           ELSE [q |-> [q EXCEPT !.log = Append(q.log, wr(q.data[q.i])),
                                 !.i = IF q.i + 1 < TqSize(q) THEN q.i + 1 ELSE 0,
                                 !.pc = IF q.i + 1 < TqSize(q) THEN q.pc
                                        ELSE IF q.pc = "keywr" THEN TqAfterKey(q)
                                        ELSE TqAfterEntry(q)],
                 chip |-> ChipWrite(chip, reg, q.data[q.i])]
      [] q.pc = "addrwr" ->
           LET v == FIELD_PREP(RTL8365MB_TABLE_ADDR_MASK, q.addr)
           IN IF fail THEN same(TqFail(q, wrfail(v)))
              ELSE [q |-> [q EXCEPT !.log = Append(q.log, wr(v)), !.pc = "ctrl"],
                    chip |-> ChipWrite(chip, reg, v)]
      [] q.pc = "ctrl" ->
           IF fail THEN same(TqFail(q, wrfail(q.cmd)))
           ELSE [q |-> [q EXCEPT !.log = Append(q.log, wr(q.cmd)), !.pc = "poll",
                                 !.polls = 0],
                 chip |-> ChipWrite(chip, reg, q.cmd)]
      [] q.pc = "poll" ->
           IF fail THEN same(TqFail(q, rdfail))
           ELSE [q |-> LET ql == [q EXCEPT !.log = Append(q.log, rd), !.val = rdv,
                                           !.polls = q.polls + 1]
                       IN IF And(rdv, RTL8365MB_TABLE_STATUS_BUSY_FLAG_MASK) = 0
                          THEN TqAfterPoll(ql)
                          ELSE IF PollTimedOut(ql.polls)
                          THEN [ql EXCEPT !.pc = "unlock", !.ret = "ETIMEDOUT"]
                          ELSE ql,
                 chip |-> ChipAfterRead(chip, reg)]
      [] q.pc = "status" ->
           IF fail THEN same(TqFail(q, rdfail))
           ELSE [q |-> TqAfterStatus([q EXCEPT !.log = Append(q.log, rd)], rdv),
                 chip |-> ChipAfterRead(chip, reg)]
      [] q.pc = "rdwin" ->
           IF fail THEN same(TqFail(q, rdfail))
           ELSE [q |-> [q EXCEPT !.log = Append(q.log, rd),
                                 !.val = TqReadWord(q.i, rdv),
                                 !.data[q.i] = TqReadWord(q.i, rdv),
                                 !.i = q.i + 1,
                                 !.pc = IF q.i + 1 < TqSize(q) THEN "rdwin" ELSE "unlock",
                                 !.ret = IF q.i + 1 < TqSize(q) THEN q.ret ELSE "OK"],
                 chip |-> chip]
      [] q.pc = "unlock" -> same([q EXCEPT !.pc = "done"])
      [] OTHER -> same(q)

\* The whole call on a chip whose register operations all succeed
RECURSIVE TqRun(_, _)
TqRun(q, chip) ==
    IF q.pc = "done" THEN [q |-> q, chip |-> chip]
    ELSE With(TqStep(q, chip, FALSE), LAMBDA n : TqRun(n.q, n.chip))

\* rtl8365mb_table_query(priv, query, data, size) as one call
rtl8365mb_table_query(chip, table, op, method, addr, port, data) ==
    TqRun(TqCall(table, op, method, addr, port, data), chip)

(***************************************************************************)
(* Entry codecs of the forwarding database: a unicast or a multicast entry *)
(* is packed into six data words and unpacked again.                       *)
(*   l2kind    which codec this run exercises, "uc" or "mc"                *)
(*   l2pc      "in" (entry chosen), "packed", "unpacked"                   *)
(*   uc, mc    the entry handed to the pack function                       *)
(*   l2data    the u16 data[6] between the two functions                   *)
(*   uc_out, mc_out   the entry the unpack function produced               *)
(***************************************************************************)
VARIABLES l2kind, l2pc, uc, mc, l2data, uc_out, mc_out

l2cVars == << l2kind, l2pc, uc, mc, l2data, uc_out, mc_out >>

UcFlags == {"auth", "sa_pri", "fwd_pri", "sa_block", "da_block", "is_static"}

\* No flag, every flag, and each flag alone
UcFlagSets == {{}, UcFlags} \cup {{f} : f \in UcFlags}

MacSamples == {<< 0, 0, 0, 0, 0, 0 >>, << 255, 255, 255, 255, 255, 255 >>,
               << 1, 2, 3, 4, 5, 6 >>}

UcEntry(mac, vid, ivl, fid, efid, port, age, prio, flags) ==
    [key |-> [mac_addr |-> mac, efid |-> efid, vid |-> vid, ivl |-> ivl, fid |-> fid],
     age |-> age, auth |-> "auth" \in flags, port |-> port,
     sa_pri |-> "sa_pri" \in flags, fwd_pri |-> "fwd_pri" \in flags,
     sa_block |-> "sa_block" \in flags, da_block |-> "da_block" \in flags,
     priority |-> prio, is_static |-> "is_static" \in flags]

\* Unicast entries within the field widths: the corners of every field
UcSamples ==
    {UcEntry(mac, vid, ivl, fid, efid, port, age, prio, flags) :
        mac \in MacSamples, vid \in {0, 1, 2048, 4095}, ivl \in BOOLEAN,
        fid \in {0, 8, 15}, efid \in {0, 4, 7}, port \in {0, 7, 8, 15},
        age \in {0, 7}, prio \in {0, 7}, flags \in UcFlagSets}

McEntry(mac, vid, ivl, prio, fwd_pri, is_static, member, igmpidx, igmp_asic) ==
    [key |-> [mac_addr |-> mac, vid |-> vid, ivl |-> ivl],
     priority |-> prio, fwd_pri |-> fwd_pri, is_static |-> is_static,
     member |-> member, igmpidx |-> igmpidx, igmp_asic |-> igmp_asic]

\* Multicast entries within the field widths; the member mask has 11 bits
McSamples ==
    {McEntry(mac, vid, ivl, prio, fwd_pri, is_static, member, igmpidx, igmp_asic) :
        mac \in MacSamples, vid \in {0, 1, 4095}, ivl \in BOOLEAN,
        prio \in {0, 7}, fwd_pri \in BOOLEAN, is_static \in BOOLEAN,
        member \in {0, 1, 255, 256, 512, 1024, 2047}, igmpidx \in {0, 255},
        igmp_asic \in BOOLEAN}

ZeroUc == rtl8365mb_l2_data_to_uc(ZeroData6)
ZeroMc == rtl8365mb_l2_data_to_mc(ZeroData6)

L2CodecIdle ==
    /\ l2kind = "uc" /\ l2pc = "in" /\ uc = ZeroUc /\ mc = ZeroMc
    /\ l2data = ZeroData6 /\ uc_out = ZeroUc /\ mc_out = ZeroMc

L2CodecInit ==
    /\ l2kind \in {"uc", "mc"}
    /\ l2pc = "in"
    /\ uc \in (IF l2kind = "uc" THEN UcSamples ELSE {ZeroUc})
    /\ mc \in (IF l2kind = "mc" THEN McSamples ELSE {ZeroMc})
    /\ l2data = ZeroData6 /\ uc_out = ZeroUc /\ mc_out = ZeroMc

UcToData ==
    /\ l2kind = "uc" /\ l2pc = "in"
    /\ l2data' = rtl8365mb_l2_uc_to_data(uc)
    /\ l2pc' = "packed"
    /\ UNCHANGED << l2kind, uc, mc, uc_out, mc_out >>

DataToUc ==
    /\ l2kind = "uc" /\ l2pc = "packed"
    /\ uc_out' = rtl8365mb_l2_data_to_uc(l2data)
    /\ l2pc' = "unpacked"
    /\ UNCHANGED << l2kind, uc, mc, l2data, mc_out >>

McToData ==
    /\ l2kind = "mc" /\ l2pc = "in"
    /\ l2data' = rtl8365mb_l2_mc_to_data(mc)
    /\ l2pc' = "packed"
    /\ UNCHANGED << l2kind, uc, mc, uc_out, mc_out >>

DataToMc ==
    /\ l2kind = "mc" /\ l2pc = "packed"
    /\ mc_out' = rtl8365mb_l2_data_to_mc(l2data)
    /\ l2pc' = "unpacked"
    /\ UNCHANGED << l2kind, uc, mc, l2data, uc_out >>

L2CodecNext == UcToData \/ DataToUc \/ McToData \/ DataToMc

\* C7: unpacking a packed unicast entry yields the entry that was packed, in
\* every field: the address, vid, fid, efid, ivl, port, age, priority and
\* all the flags.
C7_UcRoundTrip ==
    (l2kind = "uc" /\ l2pc = "unpacked") => uc_out = uc

\* A unicast round trip of an entry whose port needs the extension bit and
\* whose other fields are at their maxima
C7_Witness ==
    /\ l2kind = "uc" /\ l2pc = "unpacked"
    /\ uc.port = 15 /\ uc.key.vid = 4095 /\ uc.key.fid = 15 /\ uc.key.efid = 7
    /\ uc.age = 7 /\ uc.priority = 7 /\ uc.is_static /\ uc.key.ivl
    /\ uc.key.mac_addr = << 1, 2, 3, 4, 5, 6 >>
    /\ uc_out = uc

\* C8: unpacking a packed multicast entry yields the entry that was packed,
\* member bits 8, 9 and 10 and a false static flag included.
C8_McRoundTrip ==
    (l2kind = "mc" /\ l2pc = "unpacked") => mc_out = mc

(***************************************************************************)
(* VLAN4k table entries (rtl8365mb_vlan.c)                                 *)
(***************************************************************************)
RTL8365MB_CVLAN_ENTRY_D0_MBR_MASK == 255
RTL8365MB_CVLAN_ENTRY_D0_UNTAG_MASK == 65280
RTL8365MB_CVLAN_ENTRY_D1_FID_MASK == 15
RTL8365MB_CVLAN_ENTRY_D1_VBPEN_MASK == 16
RTL8365MB_CVLAN_ENTRY_D1_VBPRI_MASK == 224
RTL8365MB_CVLAN_ENTRY_D1_ENVLANPOL_MASK == 256
RTL8365MB_CVLAN_ENTRY_D1_METERIDX_MASK == 15872
RTL8365MB_CVLAN_ENTRY_D1_IVL_SVL_MASK == 16384
RTL8365MB_CVLAN_ENTRY_D2_MBR_EXT_MASK == 7
RTL8365MB_CVLAN_ENTRY_D2_UNTAG_EXT_MASK == 56
RTL8365MB_CVLAN_ENTRY_D2_METERIDX_EXT_MASK == 64

RTL8365MB_PRIORITYMAX == 7
RTL8365MB_FIDMAX == 15
RTL8365MB_METERMAX == 63

RTL8365MB_MAX_NUM_PORTS == 11

\* A zeroed u16 data[3]
ZeroData3 == [i \in 0..2 |-> 0]

\* struct rtl8365mb_vlan4k zeroed
ZeroVlan4k ==
    [vid |-> 0, member |-> 0, untag |-> 0, fid |-> 0, priority |-> 0,
     priority_en |-> FALSE, policing_en |-> FALSE, ivl_en |-> FALSE,
     meteridx |-> 0]

\* The unpacking of rtl8365mb_vlan_get_vlan4k: the struct is zeroed, the vid
\* is the one asked for, the other fields come from the three data words.
\* fid is a 4-bit, priority a 3-bit and meteridx a 6-bit bitfield.
Vlan4kUnpack(vid, data) ==
    [vid |-> vid,
     member |-> Or(FIELD_GET(RTL8365MB_CVLAN_ENTRY_D0_MBR_MASK, data[0]),
                   Shl(FIELD_GET(RTL8365MB_CVLAN_ENTRY_D2_MBR_EXT_MASK, data[2]), 8)),
     untag |-> Or(FIELD_GET(RTL8365MB_CVLAN_ENTRY_D0_UNTAG_MASK, data[0]),
                  Shl(FIELD_GET(RTL8365MB_CVLAN_ENTRY_D2_UNTAG_EXT_MASK, data[2]), 8)),
     fid |-> FIELD_GET(RTL8365MB_CVLAN_ENTRY_D1_FID_MASK, data[1]) % 16,
     priority_en |-> I2B(FIELD_GET(RTL8365MB_CVLAN_ENTRY_D1_VBPEN_MASK, data[1])),
     priority |-> FIELD_GET(RTL8365MB_CVLAN_ENTRY_D1_VBPRI_MASK, data[1]) % 8,
     policing_en |-> I2B(FIELD_GET(RTL8365MB_CVLAN_ENTRY_D1_ENVLANPOL_MASK, data[1])),
     meteridx |-> Or(FIELD_GET(RTL8365MB_CVLAN_ENTRY_D1_METERIDX_MASK, data[1]),
                     Shl(FIELD_GET(RTL8365MB_CVLAN_ENTRY_D2_METERIDX_EXT_MASK, data[2]), 5)) % 64,
     ivl_en |-> I2B(FIELD_GET(RTL8365MB_CVLAN_ENTRY_D1_IVL_SVL_MASK, data[1]))]

\* The packing without the sixth bit of the meter index
Vlan4kPack_meter_low(vlan4k) ==
    LET d0 == Or(FIELD_PREP(RTL8365MB_CVLAN_ENTRY_D0_MBR_MASK, vlan4k.member),
                 FIELD_PREP(RTL8365MB_CVLAN_ENTRY_D0_UNTAG_MASK, vlan4k.untag))
        d1 == Or(Or(Or(FIELD_PREP(RTL8365MB_CVLAN_ENTRY_D1_FID_MASK, vlan4k.fid),
                       FIELD_PREP(RTL8365MB_CVLAN_ENTRY_D1_VBPEN_MASK,
                                  B2I(vlan4k.priority_en))),
                    Or(FIELD_PREP(RTL8365MB_CVLAN_ENTRY_D1_VBPRI_MASK, vlan4k.priority),
                       FIELD_PREP(RTL8365MB_CVLAN_ENTRY_D1_ENVLANPOL_MASK,
                                  B2I(vlan4k.policing_en)))),
                 Or(FIELD_PREP(RTL8365MB_CVLAN_ENTRY_D1_METERIDX_MASK, vlan4k.meteridx),
                    FIELD_PREP(RTL8365MB_CVLAN_ENTRY_D1_IVL_SVL_MASK,
                               B2I(vlan4k.ivl_en))))
        d2 == Or(FIELD_PREP(RTL8365MB_CVLAN_ENTRY_D2_MBR_EXT_MASK,
                            Shr(vlan4k.member, 8)),
                 FIELD_PREP(RTL8365MB_CVLAN_ENTRY_D2_UNTAG_EXT_MASK,
                            Shr(vlan4k.untag, 8)))
    IN [i \in 0..2 |-> CASE i = 0 -> d0 [] i = 1 -> d1 [] OTHER -> d2]

\* The packing of rtl8365mb_vlan_set_vlan4k into a zeroed u16 data[3]
Vlan4kPack(vlan4k) ==
    LET d0 == Or(FIELD_PREP(RTL8365MB_CVLAN_ENTRY_D0_MBR_MASK, vlan4k.member),
                 FIELD_PREP(RTL8365MB_CVLAN_ENTRY_D0_UNTAG_MASK, vlan4k.untag))
        d1 == Or(Or(Or(FIELD_PREP(RTL8365MB_CVLAN_ENTRY_D1_FID_MASK, vlan4k.fid),
                       FIELD_PREP(RTL8365MB_CVLAN_ENTRY_D1_VBPEN_MASK,
                                  B2I(vlan4k.priority_en))),
                    Or(FIELD_PREP(RTL8365MB_CVLAN_ENTRY_D1_VBPRI_MASK, vlan4k.priority),
                       FIELD_PREP(RTL8365MB_CVLAN_ENTRY_D1_ENVLANPOL_MASK,
                                  B2I(vlan4k.policing_en)))),
                 Or(FIELD_PREP(RTL8365MB_CVLAN_ENTRY_D1_METERIDX_MASK, vlan4k.meteridx),
                    FIELD_PREP(RTL8365MB_CVLAN_ENTRY_D1_IVL_SVL_MASK,
                               B2I(vlan4k.ivl_en))))
        d2 == Or(Or(FIELD_PREP(RTL8365MB_CVLAN_ENTRY_D2_MBR_EXT_MASK,
                               Shr(vlan4k.member, 8)),
                    FIELD_PREP(RTL8365MB_CVLAN_ENTRY_D2_UNTAG_EXT_MASK,
                               Shr(vlan4k.untag, 8))),
                 FIELD_PREP(RTL8365MB_CVLAN_ENTRY_D2_METERIDX_EXT_MASK,
                            Shr(vlan4k.meteridx, 5)))
    IN [i \in 0..2 |-> CASE i = 0 -> d0 [] i = 1 -> d1 [] OTHER -> d2]

\* rtl8365mb_vlan_get_vlan4k(priv, vid, vlan4k): a read of the CVLAN table at
\* address vid; on an error the caller's struct is left as it was
rtl8365mb_vlan_get_vlan4k(chip, vid, vlan4k) ==
    With(rtl8365mb_table_query(chip, RTL8365MB_TABLE_CVLAN,
                                   RTL8365MB_TABLE_OP_READ, 0, vid, 0, ZeroData3),
      LAMBDA r : [ret |-> r.q.ret, chip |-> r.chip,
         vlan4k |-> IF r.q.ret # "OK" THEN vlan4k ELSE Vlan4kUnpack(vid, r.q.data)])

\* rtl8365mb_vlan_set_vlan4k(priv, vlan4k): range checks, then a write of the
\* CVLAN table at address vlan4k->vid
rtl8365mb_vlan_set_vlan4k(chip, vlan4k) ==
    IF \/ vlan4k.fid > RTL8365MB_FIDMAX
       \/ vlan4k.priority > RTL8365MB_PRIORITYMAX
       \/ vlan4k.meteridx > RTL8365MB_METERMAX
    THEN [ret |-> "EINVAL", chip |-> chip]
    ELSE With(rtl8365mb_table_query(chip, RTL8365MB_TABLE_CVLAN,
                                        RTL8365MB_TABLE_OP_WRITE, 0, vlan4k.vid, 0,
                                        Vlan4kPack(vlan4k)),
         LAMBDA r : [ret |-> r.q.ret, chip |-> r.chip])

(***************************************************************************)
(* The switch chip, shared by everything below                             *)
(***************************************************************************)
VARIABLE chip

(***************************************************************************)
(* VLAN4k entries through the table: set, get, and the add of a port to a  *)
(* VLAN by rtl8365mb_port_vlan_add (rtl8365mb_main.c).                     *)
(*   vlan_pc        "in", "set", "got", "added", "done"                    *)
(*   vlan_e         the entry handed to rtl8365mb_vlan_set_vlan4k          *)
(*   vlan_got       the entry rtl8365mb_vlan_get_vlan4k returned after it  *)
(*   vlan_port, vlan_untagged   the arguments of rtl8365mb_port_vlan_add   *)
(*   vlan_after     the entry read back after rtl8365mb_port_vlan_add      *)
(*   vlan_ret       the last return code                                   *)
(***************************************************************************)
VARIABLES vlan_pc, vlan_e, vlan_got, vlan_port, vlan_untagged, vlan_after,
          vlan_ret

vlanVars == << vlan_pc, vlan_e, vlan_got, vlan_port, vlan_untagged,
               vlan_after, vlan_ret >>

\* priority_en, policing_en, ivl_en: none, all, each alone
VlanFlagSets == {{}, {"priority_en"}, {"policing_en"}, {"ivl_en"},
                 {"priority_en", "policing_en", "ivl_en"}}

\* VLAN4k entries within the field widths; the port masks have 11 bits
Vlan4kSamples ==
    {[vid |-> vid, member |-> member, untag |-> untag, fid |-> fid,
      priority |-> prio, priority_en |-> "priority_en" \in flags,
      policing_en |-> "policing_en" \in flags, ivl_en |-> "ivl_en" \in flags,
      meteridx |-> meteridx] :
        vid \in {10, 4095}, member \in {0, 7, 256, 2047}, untag \in {0, 7, 2047},
        fid \in {0, 15}, prio \in {0, 7}, meteridx \in {0, 32, 63},
        flags \in VlanFlagSets}

\* What the CVLAN table holds before: nothing, or a row of all ones at the
\* entry's address
CvlanBefore(vid) ==
    {Empty, TblPut(Empty, vid, [i \in 0..9 |-> 65535])}

VlanIdle ==
    /\ vlan_pc = "in" /\ vlan_e = ZeroVlan4k /\ vlan_got = ZeroVlan4k
    /\ vlan_port = 0 /\ vlan_untagged = FALSE /\ vlan_after = ZeroVlan4k
    /\ vlan_ret = "none"

VlanInit ==
    /\ vlan_e \in Vlan4kSamples
    /\ \E before \in CvlanBefore(vlan_e.vid) :
          chip = [ChipReset(0, "wrap") EXCEPT !.cvlan = before]
    /\ vlan_pc = "in" /\ vlan_got = ZeroVlan4k
    /\ vlan_port = 0 /\ vlan_untagged = FALSE /\ vlan_after = ZeroVlan4k
    /\ vlan_ret = "none"

\* rtl8365mb_vlan_set_vlan4k(priv, &e)
VlanSet ==
    /\ vlan_pc = "in"
    /\ \E r \in {rtl8365mb_vlan_set_vlan4k(chip, vlan_e)} :
          /\ chip' = r.chip
          /\ vlan_ret' = r.ret
          /\ vlan_pc' = IF r.ret = "OK" THEN "set" ELSE "done"
    /\ UNCHANGED << vlan_e, vlan_got, vlan_port, vlan_untagged, vlan_after >>

\* rtl8365mb_vlan_get_vlan4k(priv, e.vid, &got)
VlanGet ==
    /\ vlan_pc = "set"
    /\ \E r \in {rtl8365mb_vlan_get_vlan4k(chip, vlan_e.vid, vlan_got)} :
          /\ chip' = r.chip
          /\ vlan_ret' = r.ret
          /\ vlan_got' = r.vlan4k
          /\ vlan_pc' = IF r.ret = "OK" THEN "got" ELSE "done"
    /\ UNCHANGED << vlan_e, vlan_port, vlan_untagged, vlan_after >>

\* The add of a port that overwrites the member mask with the port's bit
port_vlan_add_assign(port, untagged) ==
    /\ vlan_pc = "got"
    /\ \E g \in {rtl8365mb_vlan_get_vlan4k(chip, vlan_e.vid, ZeroVlan4k)} :
         LET m == [g.vlan4k EXCEPT
                   !.member = BIT(port),
                   !.untag = Or(g.vlan4k.untag, IF untagged THEN BIT(port) ELSE 0),
                   !.ivl_en = TRUE]
         IN IF g.ret # "OK"
            THEN chip' = g.chip /\ vlan_ret' = g.ret
            ELSE \E w \in {rtl8365mb_vlan_set_vlan4k(g.chip, m)} :
                    chip' = w.chip /\ vlan_ret' = w.ret
    /\ vlan_port' = port
    /\ vlan_untagged' = untagged
    /\ vlan_pc' = "added"
    /\ UNCHANGED << vlan_e, vlan_got, vlan_after >>

\* rtl8365mb_port_vlan_add(ds, port, vlan) on a port without a PVID and
\* without BRIDGE_VLAN_INFO_PVID: the entry is read, the port is added to
\* the member mask (and to the untag mask when untagged), independent
\* learning is switched on, and the entry is written back.  With no PVID
\* and no synced membership config rtl8365mb_port_set_pvid and
\* rtl8365mb_sync_vlanmc return at once.
rtl8365mb_port_vlan_add(port, untagged) ==
    /\ vlan_pc = "got"
    /\ \E g \in {rtl8365mb_vlan_get_vlan4k(chip, vlan_e.vid, ZeroVlan4k)} :
         LET m == [g.vlan4k EXCEPT
                   !.member = Or(g.vlan4k.member, BIT(port)),
                   !.untag = Or(g.vlan4k.untag, IF untagged THEN BIT(port) ELSE 0),
                   !.ivl_en = TRUE]
         IN IF g.ret # "OK"
            THEN chip' = g.chip /\ vlan_ret' = g.ret
            ELSE \E w \in {rtl8365mb_vlan_set_vlan4k(g.chip, m)} :
                    chip' = w.chip /\ vlan_ret' = w.ret
    /\ vlan_port' = port
    /\ vlan_untagged' = untagged
    /\ vlan_pc' = "added"
    /\ UNCHANGED << vlan_e, vlan_got, vlan_after >>

PortVlanAdd ==
    \E port \in 0..(RTL8365MB_MAX_NUM_PORTS - 1), untagged \in BOOLEAN :
        rtl8365mb_port_vlan_add(port, untagged)

\* rtl8365mb_vlan_get_vlan4k(priv, e.vid, &after)
VlanGetAfter ==
    /\ vlan_pc = "added" /\ vlan_ret = "OK"
    /\ \E r \in {rtl8365mb_vlan_get_vlan4k(chip, vlan_e.vid, vlan_after)} :
          /\ chip' = r.chip
          /\ vlan_ret' = r.ret
          /\ vlan_after' = r.vlan4k
          /\ vlan_pc' = "done"
    /\ UNCHANGED << vlan_e, vlan_got, vlan_port, vlan_untagged >>

VlanNext == VlanSet \/ VlanGet \/ PortVlanAdd \/ VlanGetAfter

\* C9: a VLAN4k entry read back after it was set has the fields of the
\* entry that was set.
C9_Vlan4kRoundTrip ==
    (vlan_pc \in {"got", "added"} \/ (vlan_pc = "done" /\ vlan_after # ZeroVlan4k))
        => vlan_got = vlan_e

\* An entry with members in both words, the largest fid, priority and meter
\* index, read back as it was set over a row of all ones
C9_Witness ==
    /\ vlan_pc = "got" /\ vlan_ret = "OK"
    /\ vlan_e.member = 2047 /\ vlan_e.untag = 2047 /\ vlan_e.fid = 15
    /\ vlan_e.priority = 7 /\ vlan_e.meteridx = 63 /\ vlan_e.vid = 4095
    /\ vlan_got = vlan_e

RTL8365MB_ACL_ACTION_CTRL_BASE == 1556
RTL8365MB_ACL_ACTION_CTRL_EXT_BASE == 1776
RTL8365MB_ACL_ACTION_CTRL_NEGATE_MASK_BASE == 64
RTL8365MB_ACL_RULE_ENTRY_D0_TEMPLATE_MASK == 7
RTL8365MB_ACL_RULE_ENTRY_D0_PORTMASK_MASK == 65280
RTL8365MB_ACL_RULE_ENTRY_D9_VALID_MASK == 1
RTL8365MB_ACL_RULE_ENTRY_D9_PORTMASK_EXT_MASK == 14
RTL8365MB_NUM_ACL_FIELDS == 8
RTL8365MB_NUM_ACL_CONFIGS == 96

RTL8365MB_ACL_ACTION_CTRL_REG(x) ==
    IF x < 64 THEN RTL8365MB_ACL_ACTION_CTRL_BASE + Shr(x, 1)
    ELSE RTL8365MB_ACL_ACTION_CTRL_EXT_BASE + Shr(x - 64, 1)

RTL8365MB_ACL_ACTION_CTRL_OFFSET(x) == 8 * And(x, 1)

RTL8365MB_ACL_ACTION_CTRL_NEGATE_MASK(x) ==
    Shl(64, RTL8365MB_ACL_ACTION_CTRL_OFFSET(x))

\* The row address with the shift of the first 64 rules for every rule
RTL8365MB_ACL_RULE_ENTRY_ADDR_one_bank(data, x) == Or(Shl(data, 6), x)

RTL8365MB_ACL_RULE_ENTRY_ADDR(data, x) ==
    IF x < 64 THEN Or(Shl(data, 6), x) ELSE Or(Shl(data, 5), x + 64)

RTL8365MB_ACL_RULE_ENTRY_DATA_ADDR(x) == RTL8365MB_ACL_RULE_ENTRY_ADDR(1, x)
RTL8365MB_ACL_RULE_ENTRY_CARE_ADDR(x) == RTL8365MB_ACL_RULE_ENTRY_ADDR(0, x)

\* regmap_update_bits(map, reg, mask, val) on a 16-bit register
regmap_update_bits(c, reg, mask, val) ==
    ChipWrite(c, reg, Or(And(ChipReadVal(c, reg), Not16(mask)), And(val, mask)))

\* rtl8365mb_acl_set_rule_negate(priv, ruleidx, negate)
rtl8365mb_acl_set_rule_negate(c, ruleidx, negate) ==
    regmap_update_bits(c, RTL8365MB_ACL_ACTION_CTRL_REG(ruleidx),
                       RTL8365MB_ACL_ACTION_CTRL_NEGATE_MASK(ruleidx),
                       Shl(FIELD_PREP(RTL8365MB_ACL_ACTION_CTRL_NEGATE_MASK_BASE,
                                      B2I(negate)),
                           RTL8365MB_ACL_ACTION_CTRL_OFFSET(ruleidx)))

\* rtl8365mb_acl_get_rule_negate(priv, ruleidx, &negate): the value stored
\* into *negate
rtl8365mb_acl_get_rule_negate(c, ruleidx) ==
    I2B(FIELD_GET(RTL8365MB_ACL_ACTION_CTRL_NEGATE_MASK_BASE,
                  Shr(ChipReadVal(c, RTL8365MB_ACL_ACTION_CTRL_REG(ruleidx)),
                      RTL8365MB_ACL_ACTION_CTRL_OFFSET(ruleidx))))

\* struct rtl8365mb_acl_rule zeroed
ZeroFields == [i \in 0..(RTL8365MB_NUM_ACL_FIELDS - 1) |-> 0]

ZeroRule ==
    [enabled |-> FALSE, negate |-> FALSE, template |-> 0,
     care |-> [portmask |-> 0, fields |-> ZeroFields],
     data |-> [portmask |-> 0, fields |-> ZeroFields]]

\* The care entry of rtl8365mb_acl_set_rule as packed from the rule, before
\* the care/data transform: all template bits, the port mask, the fields,
\* the port mask extension and a valid bit of 0
AclPackCare(rule) ==
    [i \in 0..9 |->
        IF i = 0
        THEN Or(FIELD_PREP(RTL8365MB_ACL_RULE_ENTRY_D0_TEMPLATE_MASK,
                           RTL8365MB_ACL_RULE_ENTRY_D0_TEMPLATE_MASK),
                FIELD_PREP(RTL8365MB_ACL_RULE_ENTRY_D0_PORTMASK_MASK,
                           rule.care.portmask))
        ELSE IF i = 9
        THEN Or(FIELD_PREP(RTL8365MB_ACL_RULE_ENTRY_D9_PORTMASK_EXT_MASK,
                           Shr(rule.care.portmask, 8)),
                FIELD_PREP(RTL8365MB_ACL_RULE_ENTRY_D9_VALID_MASK, 0))
        ELSE rule.care.fields[i - 1]]

\* The data entry as packed from the rule, before the transform
AclPackData(rule) ==
    [i \in 0..9 |->
        IF i = 0
        THEN Or(FIELD_PREP(RTL8365MB_ACL_RULE_ENTRY_D0_TEMPLATE_MASK, rule.template),
                FIELD_PREP(RTL8365MB_ACL_RULE_ENTRY_D0_PORTMASK_MASK,
                           rule.data.portmask))
        ELSE IF i = 9
        THEN FIELD_PREP(RTL8365MB_ACL_RULE_ENTRY_D9_PORTMASK_EXT_MASK,
                        Shr(rule.data.portmask, 8))
        ELSE rule.data.fields[i - 1]]

\* The care entry written as it was packed
AclCareRow_as_packed(rule) == AclPackCare(rule)

\* The care entry written to the table: care & ~data, word by word
AclCareRow(rule) ==
    [i \in 0..9 |-> And(AclPackCare(rule)[i], Not16(AclPackData(rule)[i]))]

\* The data entry written to the table: care & data, word by word, then the
\* valid bit
AclDataRow(rule) ==
    [i \in 0..9 |->
        IF i = 9
        THEN Or(And(AclPackCare(rule)[i], AclPackData(rule)[i]),
                FIELD_PREP(RTL8365MB_ACL_RULE_ENTRY_D9_VALID_MASK, B2I(rule.enabled)))
        ELSE And(AclPackCare(rule)[i], AclPackData(rule)[i])]

\* A write of a ten-word row to the ACL rule table
AclWriteRow(c, addr, row) ==
    rtl8365mb_table_query(c, RTL8365MB_TABLE_ACL_RULE, RTL8365MB_TABLE_OP_WRITE,
                          0, addr, 0, row)

\* A read of a ten-word row of the ACL rule table
AclReadRow(c, addr) ==
    rtl8365mb_table_query(c, RTL8365MB_TABLE_ACL_RULE, RTL8365MB_TABLE_OP_READ,
                          0, addr, 0, ZeroWindow)

\* The unpacking of rtl8365mb_acl_get_rule from the data row and the care
\* row as read: the care words are first xor-ed with the data words
AclUnpack(data_data, care_read, negate) ==
    LET care_data == [i \in 0..9 |-> Xor(care_read[i], data_data[i])]
    IN  [enabled |-> I2B(FIELD_GET(RTL8365MB_ACL_RULE_ENTRY_D9_VALID_MASK,
                                   data_data[9])),
         negate |-> negate,
         template |-> FIELD_GET(RTL8365MB_ACL_RULE_ENTRY_D0_TEMPLATE_MASK,
                                data_data[0]),
         care |-> [portmask |->
                       Or(FIELD_GET(RTL8365MB_ACL_RULE_ENTRY_D0_PORTMASK_MASK,
                                    care_data[0]),
                          FIELD_GET(RTL8365MB_ACL_RULE_ENTRY_D9_PORTMASK_EXT_MASK,
                                    care_data[9])),
                   fields |-> [i \in 0..(RTL8365MB_NUM_ACL_FIELDS - 1) |->
                                  care_data[i + 1]]],
         data |-> [portmask |->
                       Or(FIELD_GET(RTL8365MB_ACL_RULE_ENTRY_D0_PORTMASK_MASK,
                                    data_data[0]),
                          FIELD_GET(RTL8365MB_ACL_RULE_ENTRY_D9_PORTMASK_EXT_MASK,
                                    data_data[9])),
                   fields |-> [i \in 0..(RTL8365MB_NUM_ACL_FIELDS - 1) |->
                                  data_data[i + 1]]]]

\* rtl8365mb_acl_get_rule(priv, ruleidx, rule): the data row is read, then
\* the care row, the rule is unpacked, and the negate bit is read
rtl8365mb_acl_get_rule(c, ruleidx, rule) ==
    With(AclReadRow(c, RTL8365MB_ACL_RULE_ENTRY_DATA_ADDR(ruleidx)), LAMBDA d :
        IF d.q.ret # "OK" THEN [ret |-> d.q.ret, chip |-> d.chip, rule |-> rule]
        ELSE With(AclReadRow(d.chip, RTL8365MB_ACL_RULE_ENTRY_CARE_ADDR(ruleidx)),
                  LAMBDA k :
            IF k.q.ret # "OK" THEN [ret |-> k.q.ret, chip |-> k.chip, rule |-> rule]
            ELSE [ret |-> "OK", chip |-> k.chip,
                  rule |-> AclUnpack(d.q.data, k.q.data,
                                     rtl8365mb_acl_get_rule_negate(k.chip, ruleidx))]))

\* The operations with the data row, and its valid bit, before the care row
acl_set_rule_ops_data_first(enabled) ==
    IF enabled THEN << "erase", "negate", "data", "care" >> ELSE << "erase" >>

\* The operations without the erasure of the data row of a disabled rule
acl_set_rule_ops_keep_disabled(enabled) ==
    IF enabled THEN << "erase", "negate", "care", "data" >> ELSE << >>

\* The operations of rtl8365mb_acl_set_rule on the chip, in program order:
\* the data row is erased; for an enabled rule the negate bit is set, then
\* the care row is written, then the data row with the valid bit
rtl8365mb_acl_set_rule_ops(enabled) ==
    IF enabled THEN << "erase", "negate", "care", "data" >> ELSE << "erase" >>

\* One operation of rtl8365mb_acl_set_rule: the return code and the chip
AclSetRuleOp(op, c, ruleidx, rule) ==
    CASE op = "erase" ->
           With(AclWriteRow(c, RTL8365MB_ACL_RULE_ENTRY_DATA_ADDR(ruleidx), ZeroWindow),
                LAMBDA r : [ret |-> r.q.ret, chip |-> r.chip])
      [] op = "negate" ->
           [ret |-> "OK", chip |-> rtl8365mb_acl_set_rule_negate(c, ruleidx, rule.negate)]
      [] op = "care" ->
           With(AclWriteRow(c, RTL8365MB_ACL_RULE_ENTRY_CARE_ADDR(ruleidx),
                            AclCareRow(rule)),
                LAMBDA r : [ret |-> r.q.ret, chip |-> r.chip])
      [] op = "data" ->
           With(AclWriteRow(c, RTL8365MB_ACL_RULE_ENTRY_DATA_ADDR(ruleidx),
                            AclDataRow(rule)),
                LAMBDA r : [ret |-> r.q.ret, chip |-> r.chip])

\* rtl8365mb_acl_set_rule(priv, ruleidx, rule) from operation n on, to its
\* return
RECURSIVE AclSetRuleFrom(_, _, _, _)
AclSetRuleFrom(n, c, ruleidx, rule) ==
    IF n > Len(rtl8365mb_acl_set_rule_ops(rule.enabled))
    THEN [ret |-> "OK", chip |-> c]
    ELSE With(AclSetRuleOp(rtl8365mb_acl_set_rule_ops(rule.enabled)[n], c, ruleidx, rule),
              LAMBDA r : IF r.ret # "OK" THEN r
                         ELSE AclSetRuleFrom(n + 1, r.chip, ruleidx, rule))

rtl8365mb_acl_set_rule(c, ruleidx, rule) == AclSetRuleFrom(1, c, ruleidx, rule)

(***************************************************************************)
(* A rule is set at an index that may hold an earlier rule, one operation  *)
(* on the chip at a time, and is then read back.                           *)
(*   acl_pc     "set" (rtl8365mb_acl_set_rule running), "returned", "got"  *)
(*   acl_n      operations of rtl8365mb_acl_set_rule done                  *)
(*   acl_idx    the rule index                                             *)
(*   acl_rule   the rule handed to rtl8365mb_acl_set_rule                  *)
(*   acl_prev   the rule set at the index before                           *)
(*   acl_out    the rule rtl8365mb_acl_get_rule returned                   *)
(*   acl_ret    the last return code                                       *)
(***************************************************************************)
VARIABLES acl_pc, acl_n, acl_idx, acl_rule, acl_prev, acl_out, acl_ret

aclVars == << acl_pc, acl_n, acl_idx, acl_rule, acl_prev, acl_out, acl_ret >>

\* Field words: all zero, all ones, and eight different values
AclFieldsMixed == [i \in 0..(RTL8365MB_NUM_ACL_FIELDS - 1) |-> 4369 * (i + 1)]
AclFieldsOnes == [i \in 0..(RTL8365MB_NUM_ACL_FIELDS - 1) |-> 65535]

\* Port masks of up to 11 bits
AclPortmasks == {0, 255, 256, 2047}

AclRuleSamples ==
    {[enabled |-> en, negate |-> ng, template |-> t,
      care |-> [portmask |-> cp, fields |-> cf],
      data |-> [portmask |-> dp, fields |-> df]] :
        en \in BOOLEAN, ng \in BOOLEAN, t \in {0, 7},
        cp \in AclPortmasks, dp \in AclPortmasks,
        cf \in {AclFieldsOnes, AclFieldsMixed}, df \in {ZeroFields, AclFieldsMixed}}

\* The rule at the index before: none (the table as reset), or an enabled,
\* negated rule with every bit set
AclPrevSamples ==
    {ZeroRule,
     [enabled |-> TRUE, negate |-> TRUE, template |-> 7,
      care |-> [portmask |-> 2047, fields |-> AclFieldsOnes],
      data |-> [portmask |-> 2047, fields |-> AclFieldsOnes]]}

AclIdxSamples == {0, 63, RTL8365MB_NUM_ACL_CONFIGS - 1}

AclIdle ==
    /\ acl_pc = "set" /\ acl_n = 0 /\ acl_idx = 0 /\ acl_rule = ZeroRule
    /\ acl_prev = ZeroRule /\ acl_out = ZeroRule /\ acl_ret = "none"

AclInit ==
    /\ acl_idx \in AclIdxSamples
    /\ acl_rule \in AclRuleSamples
    /\ acl_prev \in AclPrevSamples
    /\ chip = rtl8365mb_acl_set_rule(ChipReset(0, "wrap"), acl_idx, acl_prev).chip
    /\ acl_pc = "set" /\ acl_n = 0 /\ acl_out = ZeroRule /\ acl_ret = "none"

\* The next operation of rtl8365mb_acl_set_rule; an error ends the call
AclSetRuleStep ==
    /\ acl_pc = "set"
    /\ acl_n < Len(rtl8365mb_acl_set_rule_ops(acl_rule.enabled))
    /\ \E r \in {AclSetRuleOp(rtl8365mb_acl_set_rule_ops(acl_rule.enabled)[acl_n + 1],
                              chip, acl_idx, acl_rule)} :
          /\ chip' = r.chip
          /\ acl_ret' = r.ret
          /\ acl_pc' = IF r.ret = "OK" THEN "set" ELSE "returned"
    /\ acl_n' = acl_n + 1
    /\ UNCHANGED << acl_idx, acl_rule, acl_prev, acl_out >>

\* rtl8365mb_acl_set_rule returns 0 after its last operation
AclSetRuleReturn ==
    /\ acl_pc = "set"
    /\ acl_n = Len(rtl8365mb_acl_set_rule_ops(acl_rule.enabled))
    /\ acl_pc' = "returned"
    /\ acl_ret' = "OK"
    /\ UNCHANGED << chip, acl_n, acl_idx, acl_rule, acl_prev, acl_out >>

\* rtl8365mb_acl_get_rule(priv, idx, &out) after the rule was set
AclGetRule ==
    /\ acl_pc = "returned" /\ acl_ret = "OK"
    /\ \E r \in {rtl8365mb_acl_get_rule(chip, acl_idx, acl_out)} :
          /\ chip' = r.chip
          /\ acl_ret' = r.ret
          /\ acl_out' = r.rule
    /\ acl_pc' = "got"
    /\ UNCHANGED << acl_n, acl_idx, acl_rule, acl_prev >>

AclNext == AclSetRuleStep \/ AclSetRuleReturn \/ AclGetRule

\* The rows of the rule index and its negate bit as the chip holds them
AclHwData == TblRow(chip.acl, RTL8365MB_ACL_RULE_ENTRY_DATA_ADDR(acl_idx))
AclHwCare == TblRow(chip.acl, RTL8365MB_ACL_RULE_ENTRY_CARE_ADDR(acl_idx))
AclHwNegate == rtl8365mb_acl_get_rule_negate(chip, acl_idx)
AclHwValid == FIELD_GET(RTL8365MB_ACL_RULE_ENTRY_D9_VALID_MASK, AclHwData[9]) = 1

\* C4: the rule read back after a rule was set equals the rule that was set.
C4_RuleRoundTrip ==
    (acl_pc = "got" /\ acl_ret = "OK") => acl_out = acl_rule

\* C5: while an enabled rule is being set and after it, a data row with the
\* valid bit holds the new data row, next to the new care row and the new
\* negate bit; the care row never has the valid bit.
C5_ValidWrittenLast ==
    /\ FIELD_GET(RTL8365MB_ACL_RULE_ENTRY_D9_VALID_MASK, AclHwCare[9]) = 0
    /\ (acl_rule.enabled /\ acl_n >= 1 /\ AclHwValid)
          => /\ AclHwCare = AclCareRow(acl_rule)
             /\ AclHwData = AclDataRow(acl_rule)
             /\ AclHwNegate = acl_rule.negate

\* An enabled rule replacing an enabled one: between the operations the
\* valid bit is clear while the old care row is still there
C5_Witness ==
    /\ acl_rule.enabled /\ acl_prev.enabled /\ acl_pc = "set" /\ acl_n = 2
    /\ ~AclHwValid
    /\ AclHwCare # AclCareRow(acl_rule)
    /\ AclHwNegate = acl_rule.negate

\* C6: after rtl8365mb_acl_set_rule with enabled = false returned 0 the
\* data row of the index has its valid bit clear, and a rule read back is
\* not enabled.
C6_DisableClearsValid ==
    (~acl_rule.enabled /\ acl_pc \in {"returned", "got"} /\ acl_ret = "OK")
        => /\ ~AclHwValid
           /\ (acl_pc = "got" => ~acl_out.enabled)

\* A disabled rule set over an enabled one, read back as not enabled
C6_Witness ==
    /\ ~acl_rule.enabled /\ acl_prev.enabled /\ acl_pc = "got" /\ acl_ret = "OK"
    /\ ~AclHwValid /\ ~acl_out.enabled
    /\ acl_rule.care.portmask = 2047 /\ acl_rule.data.fields = AclFieldsMixed

\* The data row of the rule index without its valid bit
AclHwDataNoValid ==
    [i \in 0..9 |->
        IF i = 9
        THEN And(AclHwData[9], 65535 - RTL8365MB_ACL_RULE_ENTRY_D9_VALID_MASK)
        ELSE AclHwData[i]]

\* C22: after an enabled rule was set, every one of the ten words of the
\* care row is care & ~data and of the data row, the valid bit aside, is
\* care & data of the packed words: the two rows have no bit in common,
\* their xor is the packed care word, and the data row is the packed data
\* word wherever that has no bit outside the care word.
C22_CareDataTransform ==
    (acl_rule.enabled /\ acl_pc \in {"returned", "got"}
        /\ acl_n = Len(rtl8365mb_acl_set_rule_ops(TRUE)) /\ AclHwValid)
    => \A i \in 0..9 :
          LET care == AclPackCare(acl_rule)[i]
              data == AclPackData(acl_rule)[i]
          IN  /\ AclHwCare[i] = And(care, Not16(data))
              /\ AclHwDataNoValid[i] = And(care, data)
              /\ And(AclHwCare[i], AclHwDataNoValid[i]) = 0
              /\ Xor(AclHwCare[i], AclHwDataNoValid[i]) = care
              /\ And(data, Not16(care)) = 0 => AclHwDataNoValid[i] = data

\* A rule whose data port mask has bits outside the care port mask and
\* whose field words have bits in common with the care words has been set
C22_Witness ==
    /\ acl_rule.enabled /\ acl_pc = "returned" /\ acl_ret = "OK"
    /\ acl_n = Len(rtl8365mb_acl_set_rule_ops(TRUE))
    /\ acl_rule.care.portmask = 255 /\ acl_rule.data.portmask = 2047
    /\ acl_rule.care.fields = AclFieldsOnes /\ acl_rule.data.fields = AclFieldsMixed
    /\ AclHwData[1] = 4369 /\ AclHwCare[1] = 65535 - 4369
    /\ AclHwValid

(***************************************************************************)
(* rtl8365mb_l2_flush (rtl8365mb_l2.c), one register operation per step.   *)
(* A call is a record: port, vid, the position pc, the return code ret,    *)
(* the polls done, the number nops of register operations issued and the   *)
(* error err of the first register operation that failed.                  *)
(***************************************************************************)
FlCall(port, vid) ==
    [port |-> port, vid |-> vid, pc |-> "lock", ret |-> "none", polls |-> 0,
     nops |-> 0, err |-> "none"]

FlIsRegStep(f) == f.pc \in {"ctrl2", "ctrl1", "port", "fpoll"}

\* The flush command register of the port and the port's bit in it
FlPortReg(f) ==
    IF f.port < 8 THEN RTL8365MB_L2_FLUSH_PORT_REG ELSE RTL8365MB_L2_FLUSH_PORT_EXT_REG

FlPortBits(f) == IF f.port < 8 THEN And(BIT(f.port), 255) ELSE Shr(BIT(f.port), 8)

FlBusyBits(f) ==
    IF f.port < 8
    THEN FIELD_PREP(RTL8365MB_L2_FLUSH_PORT_BUSY_MASK, FlPortBits(f))
    ELSE FIELD_PREP(RTL8365MB_L2_FLUSH_PORT_EXT_BUSY_MASK, FlPortBits(f))

\* One step of the call; a failed write of the VID register is not checked
FlStep(f, c, fail) ==
    LET op == [f EXCEPT !.nops = f.nops + 1]
        same(ff) == [f |-> ff, chip |-> c]
        failed == same([op EXCEPT !.pc = "unlock", !.ret = "EIO", !.err = "EIO"])
    IN
    CASE f.pc = "lock" -> same([f EXCEPT !.pc = "ctrl2"])
      [] f.pc = "ctrl2" ->
           IF fail THEN failed
           ELSE [f |-> [op EXCEPT !.pc = "ctrl1"],
                 chip |-> ChipWrite(c, RTL8365MB_L2_FLUSH_CTRL2_REG,
                            Or(FIELD_PREP(RTL8365MB_L2_FLUSH_CTRL2_MODE_MASK,
                                          IF f.vid # 0
                                          THEN RTL8365MB_L2_FLUSH_CTRL2_MODE_PORT_VID
                                          ELSE RTL8365MB_L2_FLUSH_CTRL2_MODE_PORT),
                               FIELD_PREP(RTL8365MB_L2_FLUSH_CTRL2_TYPE_MASK,
                                          RTL8365MB_L2_FLUSH_CTRL2_TYPE_DYNAMIC)))]
      [] f.pc = "ctrl1" ->
           [f |-> [op EXCEPT !.pc = "port",
                             !.err = IF fail THEN "EIO" ELSE f.err],
            chip |-> IF fail THEN c
                     ELSE ChipWrite(c, RTL8365MB_L2_FLUSH_CTRL1_REG,
                                    FIELD_PREP(RTL8365MB_L2_FLUSH_CTRL1_VID_MASK, f.vid))]
      [] f.pc = "port" ->
           IF fail THEN failed
           ELSE [f |-> [op EXCEPT !.pc = "fpoll", !.polls = 0],
                 chip |-> ChipWrite(c, FlPortReg(f),
                            IF f.port < 8
                            THEN FIELD_PREP(RTL8365MB_L2_FLUSH_PORT_MASK_MASK, FlPortBits(f))
                            ELSE FIELD_PREP(RTL8365MB_L2_FLUSH_PORT_EXT_MASK_MASK,
                                            FlPortBits(f)))]
      [] f.pc = "fpoll" ->
           IF fail THEN failed
           ELSE [f |-> IF And(ChipReadVal(c, FlPortReg(f)), FlBusyBits(f)) = 0
                       THEN [op EXCEPT !.pc = "unlock", !.ret = "OK",
                                       !.polls = f.polls + 1]
                       ELSE IF PollTimedOut(f.polls + 1)
                       THEN [op EXCEPT !.pc = "unlock", !.ret = "ETIMEDOUT",
                                       !.polls = f.polls + 1]
                       ELSE [op EXCEPT !.polls = f.polls + 1],
                 chip |-> ChipAfterRead(c, FlPortReg(f))]
      [] f.pc = "unlock" -> same([f EXCEPT !.pc = "done"])
      [] OTHER -> same(f)

(***************************************************************************)
(* Callers of the table engine, of the flush and of the locked register    *)
(* map, running concurrently.                                              *)
(*   map_lock   priv->map_lock: 0 when free, else the caller holding it    *)
(*   thr        per caller: kind ("idle", "query", "flush", "reg", "done"),*)
(*              the table query q with its arguments as called q0, the     *)
(*              flush f, the position r of a locked register read, and acq,*)
(*              the lock acquisitions of the running call                  *)
(*   foreign    per caller: 1 once another caller's register operation     *)
(*              fell between the first register operation of the running   *)
(*              call and its unlock                                        *)
(***************************************************************************)
VARIABLES map_lock, thr, foreign

tableVars == << map_lock, thr, foreign >>

Callers == {1, 2}

\* A lock that never makes a caller wait
MutexNeverWaits(lock) == TRUE

\* mutex_lock(&priv->map_lock) proceeds when the mutex is free
MutexFree(lock) == lock = 0

\* The ten-word table row of a six-word entry
WindowOf(data) == [i \in 0..9 |-> IF i < 6 THEN data[i] ELSE 0]

\* Entries of the forwarding database: two stored, one to add, one absent
L2EntryA == UcEntry(<< 0, 2, 3, 4, 5, 6 >>, 10, TRUE, 0, 0, 1, 3, 0, {})
L2EntryB == UcEntry(<< 0, 17, 34, 51, 68, 85 >>, 20, TRUE, 0, 0, 9, 0, 0, {"is_static"})
L2EntryC == UcEntry(<< 0, 1, 1, 1, 1, 1 >>, 10, TRUE, 0, 0, 2, 1, 0, {})
L2EntryAbsent == UcEntry(<< 0, 9, 9, 9, 9, 9 >>, 10, TRUE, 0, 0, 0, 0, 0, {})

\* Four slots: A, free, B, free
L2Stored ==
    [a \in 0..3 |-> CASE a = 0 -> WindowOf(rtl8365mb_l2_uc_to_data(L2EntryA))
                      [] a = 2 -> WindowOf(rtl8365mb_l2_uc_to_data(L2EntryB))
                      [] OTHER -> ZeroWindow]

\* The calls of rtl8365mb_table_query the callers make
TableCalls ==
    {TqCall(RTL8365MB_TABLE_L2, RTL8365MB_TABLE_OP_READ, RTL8365MB_TABLE_L2_METHOD_MAC,
            0, 0, rtl8365mb_l2_uc_to_data(L2EntryA)),
     TqCall(RTL8365MB_TABLE_L2, RTL8365MB_TABLE_OP_READ, RTL8365MB_TABLE_L2_METHOD_MAC,
            0, 0, rtl8365mb_l2_uc_to_data(L2EntryAbsent)),
     TqCall(RTL8365MB_TABLE_L2, RTL8365MB_TABLE_OP_READ,
            RTL8365MB_TABLE_L2_METHOD_ADDR_NEXT_UC, 1, 0, ZeroData6),
     TqCall(RTL8365MB_TABLE_L2, RTL8365MB_TABLE_OP_READ,
            RTL8365MB_TABLE_L2_METHOD_ADDR_NEXT_UC_PORT, 0, 9, ZeroData6),
     TqCall(RTL8365MB_TABLE_L2, RTL8365MB_TABLE_OP_READ, RTL8365MB_TABLE_L2_METHOD_ADDR,
            1, 0, ZeroData6),
     TqCall(RTL8365MB_TABLE_L2, RTL8365MB_TABLE_OP_WRITE, 0, 0, 0,
            rtl8365mb_l2_uc_to_data(L2EntryC)),
     TqCall(RTL8365MB_TABLE_CVLAN, RTL8365MB_TABLE_OP_WRITE, 0, 10, 0,
            [i \in 0..2 |-> 257 * (i + 1)]),
     TqCall(RTL8365MB_TABLE_CVLAN, RTL8365MB_TABLE_OP_READ, 0, 10, 0, ZeroData3),
     TqCall(RTL8365MB_TABLE_ACL_RULE, RTL8365MB_TABLE_OP_READ, 0, 64, 0, ZeroWindow),
     TqCall(RTL8365MB_TABLE_ACL_ACTION, RTL8365MB_TABLE_OP_READ, 0, 0, 0,
            [i \in 0..RTL8365MB_TABLE_ENTRY_MAX_SIZE |-> 0]),
     TqCall(0, RTL8365MB_TABLE_OP_READ, 0, 0, 0, ZeroData3)}

\* The calls of rtl8365mb_l2_flush the callers make
FlushCalls == {FlCall(1, 0), FlCall(9, 20)}

IdleThread ==
    [kind |-> "idle", q |-> TqCall(0, 0, 0, 0, 0, ZeroData3),
     q0 |-> TqCall(0, 0, 0, 0, 0, ZeroData3), f |-> FlCall(0, 0), r |-> "lock",
     acq |-> 0]

TableIdle ==
    /\ map_lock = 0
    /\ thr = [t \in Callers |-> IdleThread]
    /\ foreign = [t \in Callers |-> 0]

\* The chip answers at once, after one poll, or never; it holds entries A
\* and B, a valid ACL rule row and nothing in the VLAN table
TableInit ==
    /\ \E lat \in {0, 1, PollBudget + 1} :
          chip = [ChipReset(lat, "wrap") EXCEPT
                     !.l2 = L2Stored,
                     !.acl = TblPut(Empty, 64, [i \in 0..9 |-> 65535])]
    /\ TableIdle

\* The call of caller t has issued a register operation and not yet
\* released the lock
InFlight(t) ==
    \/ thr[t].kind = "query" /\ Len(thr[t].q.log) > 0 /\ thr[t].q.pc # "done"
    \/ thr[t].kind = "flush" /\ thr[t].f.nops > 0 /\ thr[t].f.pc # "done"

\* A register operation by caller t is foreign to every other running call
ForeignAfterOp(t) ==
    [u \in Callers |-> IF u # t /\ InFlight(u) THEN 1 ELSE foreign[u]]

\* A caller calls rtl8365mb_table_query
StartQuery(t) ==
    /\ thr[t].kind = "idle"
    /\ \E call \in TableCalls :
          thr' = [thr EXCEPT ![t] = [@ EXCEPT !.kind = "query", !.q = call,
                                              !.q0 = call, !.acq = 0]]
    /\ UNCHANGED << chip, map_lock, foreign >>

\* A caller calls rtl8365mb_l2_flush
StartFlush(t) ==
    /\ thr[t].kind = "idle"
    /\ \E call \in FlushCalls :
          thr' = [thr EXCEPT ![t] = [@ EXCEPT !.kind = "flush", !.f = call, !.acq = 0]]
    /\ UNCHANGED << chip, map_lock, foreign >>

\* A caller reads a register through the locked register map, as
\* rtl8365mb_acl_get_rule_negate does
StartRegRead(t) ==
    /\ thr[t].kind = "idle"
    /\ thr' = [thr EXCEPT ![t] = [@ EXCEPT !.kind = "reg", !.r = "lock", !.acq = 0]]
    /\ UNCHANGED << chip, map_lock, foreign >>

\* rtl8365mb_table_query: the argument checks
QueryEntry(t) ==
    /\ thr[t].kind = "query" /\ thr[t].q.pc = "entry"
    /\ thr' = [thr EXCEPT ![t].q = TqStep(thr[t].q, chip, FALSE).q]
    /\ UNCHANGED << chip, map_lock, foreign >>

\* rtl8365mb_table_query: mutex_lock(&priv->map_lock)
QueryLock(t) ==
    /\ thr[t].kind = "query" /\ thr[t].q.pc = "lock"
    /\ MutexFree(map_lock)
    /\ map_lock' = t
    /\ thr' = [thr EXCEPT ![t].q = TqStep(thr[t].q, chip, FALSE).q,
                          ![t].acq = thr[t].acq + 1]
    /\ UNCHANGED << chip, foreign >>

\* rtl8365mb_table_query: one register operation, which may fail
QueryRegOp(t) ==
    /\ thr[t].kind = "query" /\ TqIsRegStep(thr[t].q)
    /\ \E fail \in BOOLEAN :
       \E n \in {TqStep(thr[t].q, chip, fail)} :
          /\ thr' = [thr EXCEPT ![t].q = n.q]
          /\ chip' = n.chip
    /\ foreign' = ForeignAfterOp(t)
    /\ UNCHANGED map_lock

\* rtl8365mb_table_query: mutex_unlock(&priv->map_lock) and return
QueryUnlock(t) ==
    /\ thr[t].kind = "query" /\ thr[t].q.pc = "unlock"
    /\ map_lock' = 0
    /\ thr' = [thr EXCEPT ![t].q = TqStep(thr[t].q, chip, FALSE).q]
    /\ UNCHANGED << chip, foreign >>

\* rtl8365mb_l2_flush: mutex_lock(&priv->map_lock)
FlushLock(t) ==
    /\ thr[t].kind = "flush" /\ thr[t].f.pc = "lock"
    /\ MutexFree(map_lock)
    /\ map_lock' = t
    /\ thr' = [thr EXCEPT ![t].f = FlStep(thr[t].f, chip, FALSE).f,
                          ![t].acq = thr[t].acq + 1]
    /\ UNCHANGED << chip, foreign >>

\* rtl8365mb_l2_flush: one register operation, which may fail
FlushRegOp(t) ==
    /\ thr[t].kind = "flush" /\ FlIsRegStep(thr[t].f)
    /\ \E fail \in BOOLEAN :
       \E n \in {FlStep(thr[t].f, chip, fail)} :
          /\ thr' = [thr EXCEPT ![t].f = n.f]
          /\ chip' = n.chip
    /\ foreign' = ForeignAfterOp(t)
    /\ UNCHANGED map_lock

\* rtl8365mb_l2_flush: mutex_unlock(&priv->map_lock) and return
FlushUnlock(t) ==
    /\ thr[t].kind = "flush" /\ thr[t].f.pc = "unlock"
    /\ map_lock' = 0
    /\ thr' = [thr EXCEPT ![t].f = FlStep(thr[t].f, chip, FALSE).f]
    /\ UNCHANGED << chip, foreign >>

\* regmap_read(priv->map, ...): realtek_common_lock takes priv->map_lock
RegLock(t) ==
    /\ thr[t].kind = "reg" /\ thr[t].r = "lock"
    /\ MutexFree(map_lock)
    /\ map_lock' = t
    /\ thr' = [thr EXCEPT ![t].r = "read", ![t].acq = thr[t].acq + 1]
    /\ UNCHANGED << chip, foreign >>

\* regmap_read(priv->map, ...): the register read
RegRead(t) ==
    /\ thr[t].kind = "reg" /\ thr[t].r = "read"
    /\ thr' = [thr EXCEPT ![t].r = "unlock"]
    /\ chip' = ChipAfterRead(chip, RTL8365MB_ACL_ACTION_CTRL_REG(0))
    /\ foreign' = ForeignAfterOp(t)
    /\ UNCHANGED map_lock

\* regmap_read(priv->map, ...): realtek_common_unlock
RegUnlock(t) ==
    /\ thr[t].kind = "reg" /\ thr[t].r = "unlock"
    /\ map_lock' = 0
    /\ thr' = [thr EXCEPT ![t].r = "done", ![t].kind = "done"]
    /\ UNCHANGED << chip, foreign >>

TableNext ==
    \E t \in Callers :
        \/ StartQuery(t) \/ StartFlush(t) \/ StartRegRead(t)
        \/ QueryEntry(t) \/ QueryLock(t) \/ QueryRegOp(t) \/ QueryUnlock(t)
        \/ FlushLock(t) \/ FlushRegOp(t) \/ FlushUnlock(t)
        \/ RegLock(t) \/ RegRead(t) \/ RegUnlock(t)

\* C1: from its first register operation to its unlock a table query or a
\* flush holds the register-map lock, taken once, and no other caller's
\* register operation (another query's, another flush's, or one through
\* the locked register map) falls in between.
C1_OneLockAcquisition ==
    \A t \in Callers :
        /\ foreign[t] = 0
        /\ InFlight(t) => (map_lock = t /\ thr[t].acq = 1)

\* A table query polling a busy chip while a flush of the other caller
\* waits for the lock
C1_Witness ==
    \E t \in Callers, u \in Callers :
        /\ t # u
        /\ thr[t].kind = "query" /\ thr[t].q.pc = "poll" /\ thr[t].q.polls = 1
        /\ Len(thr[t].q.log) > 6
        /\ thr[u].kind = "flush" /\ thr[u].f.pc = "lock"
        /\ map_lock = t /\ foreign[t] = 0

\* The register operations of a call that read a read-window register
TqWindowReads(q) ==
    {k \in 1..Len(q.log) :
        /\ q.log[k][1] \in {"r", "rfail"}
        /\ q.log[k][2] \in {RTL8365MB_TABLE_READ_REG(i) : i \in 0..9}}

\* C2: a read of the forwarding database that found the hit flag clear
\* returns -ENOENT, has read no read-window register, and has left the
\* caller's buffer and the address of the query as they were passed.
C2_MissIsNotFound ==
    \A t \in Callers :
        (/\ thr[t].kind = "query"
         /\ thr[t].q.table = RTL8365MB_TABLE_L2
         /\ thr[t].q.op = RTL8365MB_TABLE_OP_READ
         /\ thr[t].q.hit = 0)
        => /\ thr[t].q.ret = "ENOENT"
           /\ thr[t].q.pc \in {"unlock", "done"}
           /\ TqWindowReads(thr[t].q) = {}
           /\ thr[t].q.data = thr[t].q0.data
           /\ thr[t].q.addr = thr[t].q0.addr

\* A look-up of an absent key returned -ENOENT while the read window still
\* held the entry the other caller's look-up had found
C2_Witness ==
    \E t \in Callers :
        /\ thr[t].kind = "query" /\ thr[t].q.pc = "done"
        /\ thr[t].q.method = RTL8365MB_TABLE_L2_METHOD_MAC
        /\ thr[t].q.hit = 0 /\ thr[t].q.ret = "ENOENT"
        /\ thr[t].q.data = rtl8365mb_l2_uc_to_data(L2EntryAbsent)
        /\ Row6(chip.rd) = rtl8365mb_l2_uc_to_data(L2EntryA)

\* The register operations of a query after its command was written
TqAfterCommand(q) ==
    LET cmds == {k \in 1..Len(q.log) : q.log[k][2] = RTL8365MB_TABLE_CTRL_REG}
    IN  IF cmds = {} THEN << >>
        ELSE SubSeq(q.log, (CHOOSE k \in cmds : TRUE) + 1, Len(q.log))

\* C17: a busy poll makes at most PollBudget reads. A table query whose
\* poll timed out returns -ETIMEDOUT, which is not -ENOENT, having read
\* nothing after the command but the status register with the busy flag
\* set: the hit flag was never looked at and no read-window register was
\* read; it goes to the unlock and has released the lock when it returns.
\* A flush whose poll timed out does the same. On a chip whose busy flag
\* never clears every poll that is not cut short by a failed read ends so.
C17_PollTimeout ==
    \A t \in Callers :
        LET q == thr[t].q
            f == thr[t].f
        IN  /\ thr[t].kind = "query"
               => /\ q.polls <= PollBudget
                  /\ q.ret = "ETIMEDOUT"
                     => /\ q.pc \in {"unlock", "done"}
                        /\ q.ret # "ENOENT"
                        /\ q.polls = PollBudget
                        /\ q.hit = -1
                        /\ TqWindowReads(q) = {}
                        /\ Len(TqAfterCommand(q)) = PollBudget
                        /\ \A k \in 1..Len(TqAfterCommand(q)) :
                              LET e == TqAfterCommand(q)[k]
                              IN /\ e[1] = "r" /\ e[2] = RTL8365MB_TABLE_STATUS_REG
                                 /\ And(e[3], RTL8365MB_TABLE_STATUS_BUSY_FLAG_MASK) # 0
                        /\ q.pc = "done" => map_lock # t
                  /\ (chip.lat > PollBudget /\ q.polls > 0
                         /\ q.pc \in {"unlock", "done"} /\ q.ret # "EIO")
                     => q.ret = "ETIMEDOUT"
            /\ thr[t].kind = "flush"
               => /\ f.polls <= PollBudget
                  /\ f.ret = "ETIMEDOUT"
                     => /\ f.pc \in {"unlock", "done"}
                        /\ f.polls = PollBudget
                        /\ f.nops = 3 + PollBudget
                        /\ f.pc = "done" => map_lock # t
                  /\ (chip.lat > PollBudget /\ f.polls > 0
                         /\ f.pc \in {"unlock", "done"} /\ f.ret # "EIO")
                     => f.ret = "ETIMEDOUT"

\* A look-up by MAC address and a flush have both timed out and returned
C17_Witness ==
    \E t \in Callers, u \in Callers :
        /\ thr[t].kind = "query" /\ thr[t].q.pc = "done"
        /\ thr[t].q.ret = "ETIMEDOUT"
        /\ thr[t].q.method = RTL8365MB_TABLE_L2_METHOD_MAC
        /\ thr[t].q.table = RTL8365MB_TABLE_L2
        /\ thr[u].kind = "flush" /\ thr[u].f.pc = "done"
        /\ thr[u].f.ret = "ETIMEDOUT"
        /\ map_lock = 0

\* C19: a flush whose register write or read failed stops there and
\* returns that error: no failed register operation is followed by another
\* register operation of the call or by a different return value.
C19_FlushErrorReturned ==
    \A t \in Callers :
        (thr[t].kind = "flush" /\ thr[t].f.err # "none")
        => /\ thr[t].f.pc \in {"unlock", "done"}
           /\ thr[t].f.ret = thr[t].f.err

(***************************************************************************)
(* Register bit updates through the locked map (rtl8365mb_acl.c,           *)
(* realtek-common.c).  regmap_update_bits() on priv->map takes the map     *)
(* lock with realtek_common_lock(), reads the register, replaces the bits  *)
(* under the mask, writes the register back when it changed, and unlocks.  *)
(* A call is a record: kind ("mode", "negate" or "port"), idx (action,     *)
(* rule or port number) and value.                                         *)
(***************************************************************************)
RTL8365MB_ACL_ENABLE_REG == 1749
RTL8365MB_ACL_ACTION_CTRL_MODE_MASK_BASE == 63

\* A mode mask that covers the whole byte of the index
RTL8365MB_ACL_ACTION_CTRL_MODE_MASK_byte(x) ==
    Shl(255, RTL8365MB_ACL_ACTION_CTRL_OFFSET(x))

RTL8365MB_ACL_ACTION_CTRL_MODE_MASK(x) ==
    Shl(63, RTL8365MB_ACL_ACTION_CTRL_OFFSET(x))

\* The register, mask and value that rtl8365mb_acl_set_action_mode(),
\* rtl8365mb_acl_set_rule_negate() and rtl8365mb_acl_set_port_enable() hand
\* to regmap_update_bits()
UpdReg(call) ==
    IF call.kind = "port" THEN RTL8365MB_ACL_ENABLE_REG
    ELSE RTL8365MB_ACL_ACTION_CTRL_REG(call.idx)

UpdMask(call) ==
    IF call.kind = "mode" THEN RTL8365MB_ACL_ACTION_CTRL_MODE_MASK(call.idx)
    ELSE IF call.kind = "negate"
    THEN RTL8365MB_ACL_ACTION_CTRL_NEGATE_MASK(call.idx)
    ELSE BIT(call.idx)

UpdVal(call) ==
    IF call.kind = "mode"
    THEN Shl(FIELD_PREP(RTL8365MB_ACL_ACTION_CTRL_MODE_MASK_BASE, call.value),
             RTL8365MB_ACL_ACTION_CTRL_OFFSET(call.idx))
    ELSE IF call.kind = "negate"
    THEN Shl(FIELD_PREP(RTL8365MB_ACL_ACTION_CTRL_NEGATE_MASK_BASE,
                        IF call.value # 0 THEN 1 ELSE 0),
             RTL8365MB_ACL_ACTION_CTRL_OFFSET(call.idx))
    ELSE Shl(call.value, call.idx)

VARIABLES upd_lock, upd_thr, upd_first

updVars == << upd_lock, upd_thr, upd_first >>

UpdCallers == {1, 2}

UpdCalls ==
    {[kind |-> "mode", idx |-> i, value |-> v] : i \in {0, 1, 65}, v \in {0, 21, 63}}
    \cup {[kind |-> "negate", idx |-> i, value |-> v] : i \in {0, 1}, v \in {0, 1}}
    \cup {[kind |-> "port", idx |-> i, value |-> v] : i \in {0, 10}, v \in {0, 1}}

\* The registers the calls can touch and the values they start with
UpdRegs == {UpdReg(call) : call \in UpdCalls}

UpdFirstValues == {0, 65535, 23100}

UpdIdleThread == [pc |-> "idle", call |-> [kind |-> "port", idx |-> 0, value |-> 0],
                  orig |-> 0, acq |-> 0]

UpdIdle ==
    /\ upd_lock = 0 /\ upd_first = 0
    /\ upd_thr = [t \in UpdCallers |-> UpdIdleThread]

UpdInit ==
    /\ upd_lock = 0
    /\ upd_first \in UpdFirstValues
    /\ \E calls \in [UpdCallers -> UpdCalls] :
           upd_thr = [t \in UpdCallers |->
                         [UpdIdleThread EXCEPT !.pc = "lock", !.call = calls[t]]]
    /\ chip = [ChipReset(0, "wrap") EXCEPT
                  !.regs = [r \in UpdRegs |-> upd_first]]

\* map->lock(map->lock_arg): realtek_common_lock() takes priv->map_lock
UpdLock(t) ==
    /\ upd_thr[t].pc = "lock" /\ MutexFree(upd_lock)
    /\ upd_lock' = t
    /\ upd_thr' = [upd_thr EXCEPT ![t].pc = "read", ![t].acq = @ + 1]
    /\ UNCHANGED << chip, upd_first >>

\* The read of the register
UpdRead(t) ==
    /\ upd_thr[t].pc = "read"
    /\ upd_thr' = [upd_thr EXCEPT ![t].pc = "write",
                                  ![t].orig = ChipReadVal(chip, UpdReg(upd_thr[t].call))]
    /\ UNCHANGED << chip, upd_lock, upd_first >>

\* tmp = (orig & ~mask) | (val & mask), written when it differs from orig
UpdWrite(t) ==
    /\ upd_thr[t].pc = "write"
    /\ LET call == upd_thr[t].call
           tmp == Or(And(upd_thr[t].orig, Not16(UpdMask(call))),
                     And(UpdVal(call), UpdMask(call)))
       IN  chip' = IF tmp # upd_thr[t].orig
                   THEN ChipWrite(chip, UpdReg(call), tmp)
                   ELSE chip
    /\ upd_thr' = [upd_thr EXCEPT ![t].pc = "unlock"]
    /\ UNCHANGED << upd_lock, upd_first >>

\* map->unlock(map->lock_arg): realtek_common_unlock()
UpdUnlock(t) ==
    /\ upd_thr[t].pc = "unlock"
    /\ upd_lock' = 0
    /\ upd_thr' = [upd_thr EXCEPT ![t].pc = "done"]
    /\ UNCHANGED << chip, upd_first >>

UpdNext ==
    \E t \in UpdCallers : UpdLock(t) \/ UpdRead(t) \/ UpdWrite(t) \/ UpdUnlock(t)

\* The bits a call is meant to set: the six mode bits or the negate bit of
\* the byte of its index (the low byte for an even index, the high byte for
\* an odd one), or the bit of its port
UpdField(call) ==
    IF call.kind = "mode" THEN 63 * (2 ^ (8 * (call.idx % 2)))
    ELSE IF call.kind = "negate" THEN 64 * (2 ^ (8 * (call.idx % 2)))
    ELSE 2 ^ call.idx

\* The value a call is meant to leave in those bits
UpdWanted(call) ==
    IF call.kind = "port" THEN call.value * (2 ^ call.idx)
    ELSE IF call.kind = "negate" THEN call.value * 64 * (2 ^ (8 * (call.idx % 2)))
    ELSE call.value * (2 ^ (8 * (call.idx % 2)))

\* The bits of a register that the calls made on it are meant to set
UpdTouched(r) ==
    LET m(t) == IF UpdReg(upd_thr[t].call) = r THEN UpdField(upd_thr[t].call) ELSE 0
    IN  Or(m(1), m(2))

UpdDisjoint(t, u) ==
    \/ UpdReg(upd_thr[t].call) # UpdReg(upd_thr[u].call)
    \/ UpdField(upd_thr[t].call) # UpdField(upd_thr[u].call)

\* C23: a bit update reads and writes its register under one acquisition of
\* the map lock; once the calls have returned, every bit outside the fields
\* the calls were to set is as it was (so the mode or negate update of one
\* index leaves the byte of the other index and the other field of its own
\* index alone), every update of a field no other caller set has taken
\* effect whatever the interleaving, and a field two callers set holds the
\* value of one of them
C23_UpdateBitsAtomic ==
    /\ \A t \in UpdCallers :
           /\ upd_thr[t].pc \in {"read", "write", "unlock"} => upd_lock = t
           /\ upd_thr[t].acq = IF upd_thr[t].pc = "lock" THEN 0 ELSE 1
    /\ (\A t \in UpdCallers : upd_thr[t].pc = "done") =>
           /\ \A r \in UpdRegs :
                  And(ChipReadVal(chip, r), Not16(UpdTouched(r)))
                      = And(upd_first, Not16(UpdTouched(r)))
           /\ \A t \in UpdCallers :
                  LET call == upd_thr[t].call
                      field == And(ChipReadVal(chip, UpdReg(call)), UpdField(call))
                  IN  /\ (\A u \in UpdCallers \ {t} : UpdDisjoint(t, u)) =>
                             field = UpdWanted(call)
                      /\ \E u \in UpdCallers :
                             /\ UpdReg(upd_thr[u].call) = UpdReg(call)
                             /\ UpdField(upd_thr[u].call) = UpdField(call)
                             /\ field = UpdWanted(upd_thr[u].call)

\* The mode of action 1 and the negate flag of rule 1 share the upper byte of
\* a register that held 0x5A3C: both updates are in the register, its lower
\* byte is as before
C23_Witness ==
    /\ \A t \in UpdCallers : upd_thr[t].pc = "done"
    /\ upd_thr[1].call = [kind |-> "mode", idx |-> 1, value |-> 21]
    /\ upd_thr[2].call = [kind |-> "negate", idx |-> 1, value |-> 1]
    /\ upd_first = 23100
    /\ ChipReadVal(chip, RTL8365MB_ACL_ACTION_CTRL_REG(1)) = 21820

----------------------------------------------------------------------------
\* The walk of the unicast entries of the forwarding database

\* rtl8365mb_l2_get_next_uc(): the next unicast entry at or after *addr;
\* on success the entry and the address the chip reported are returned
rtl8365mb_l2_get_next_uc(c, addr, uc_in) ==
    With(rtl8365mb_table_query(c, RTL8365MB_TABLE_L2, RTL8365MB_TABLE_OP_READ,
                               RTL8365MB_TABLE_L2_METHOD_ADDR_NEXT_UC,
                               addr, 0, ZeroData6),
         LAMBDA r :
            IF r.q.ret # "OK"
            THEN [ret |-> r.q.ret, chip |-> r.chip, addr |-> addr, uc |-> uc_in]
            ELSE [ret |-> "OK", chip |-> r.chip, addr |-> r.q.addr,
                  uc |-> rtl8365mb_l2_data_to_uc(r.q.data)])

VARIABLES walk_pc, walk_port, walk_addr, first_addr, walk_uc, walk_seen,
          walk_cb, walk_ret

walkVars == << walk_pc, walk_port, walk_addr, first_addr, walk_uc, walk_seen,
               walk_cb, walk_ret >>

\* The slots of the table that entries were added to: the first ones, one
\* in between and the last slot of the table
WalkSlots == {0, 1, 2, RTL8365MB_LEARN_LIMIT_MAX - 1}

L2GroupEntry == McEntry(<< 1, 0, 94, 1, 2, 3 >>, 10, TRUE, 0, FALSE, TRUE, 6, 0, FALSE)

\* What was added to a slot: unicast entries behind ports 1, 9 and 1, and
\* a multicast entry in slot 1
WalkRow(a) ==
    WindowOf(CASE a = 0 -> rtl8365mb_l2_uc_to_data(L2EntryA)
               [] a = 1 -> rtl8365mb_l2_mc_to_data(L2GroupEntry)
               [] a = 2 -> rtl8365mb_l2_uc_to_data(L2EntryB)
               [] OTHER -> rtl8365mb_l2_uc_to_data(L2EntryC))

WalkTables ==
    {[a \in WalkSlots |-> IF a \in S THEN WalkRow(a) ELSE ZeroWindow] :
        S \in SUBSET WalkSlots}

\* The answers of the chip to a next query past the last occupied slot
NextPolicies == {"wrap", "same", "miss"}

WalkIdle ==
    /\ walk_pc = "idle" /\ walk_port = 0 /\ walk_addr = 0 /\ first_addr = 0
    /\ walk_uc = ZeroUc /\ walk_seen = << >> /\ walk_cb = << >>
    /\ walk_ret = "none"

\* The state at the call of rtl8365mb_port_fdb_dump
WalkInit ==
    /\ \E tbl \in WalkTables, next \in NextPolicies :
          chip = [ChipReset(0, next) EXCEPT !.l2 = tbl]
    /\ walk_port \in {1, 9}
    /\ walk_pc = "first" /\ walk_addr = 0 /\ first_addr = 0
    /\ walk_uc = ZeroUc /\ walk_seen = << >> /\ walk_cb = << >>
    /\ walk_ret = "none"

\* The first query of the walk, from address 0
FdbDumpFirst ==
    /\ walk_pc = "first"
    /\ \E r \in {rtl8365mb_l2_get_next_uc(chip, walk_addr, walk_uc)} :
          /\ chip' = r.chip
          /\ IF r.ret = "ENOENT"
             THEN /\ walk_pc' = "done" /\ walk_ret' = "OK"
                  /\ UNCHANGED << walk_addr, first_addr, walk_uc >>
             ELSE IF r.ret # "OK"
             THEN /\ walk_pc' = "done" /\ walk_ret' = r.ret
                  /\ UNCHANGED << walk_addr, first_addr, walk_uc >>
             ELSE /\ walk_pc' = "body" /\ walk_ret' = walk_ret
                  /\ walk_addr' = r.addr /\ first_addr' = r.addr
                  /\ walk_uc' = r.uc
    /\ UNCHANGED << walk_port, walk_seen, walk_cb >>

\* The head of the loop: the callback for an entry behind the port, then
\* the increment of the address and the test against the table size
FdbDumpBody ==
    /\ walk_pc = "body"
    /\ walk_seen' = Append(walk_seen, walk_addr)
    /\ walk_cb' = IF walk_uc.port = walk_port
                  THEN Append(walk_cb, << walk_uc.key.mac_addr, walk_uc.key.vid,
                                          walk_uc.is_static >>)
                  ELSE walk_cb
    /\ walk_addr' = walk_addr + 1
    /\ IF walk_addr + 1 >= RTL8365MB_LEARN_LIMIT_MAX
       THEN walk_pc' = "done" /\ walk_ret' = "OK"
       ELSE walk_pc' = "next" /\ walk_ret' = walk_ret
    /\ UNCHANGED << chip, walk_port, first_addr, walk_uc >>

\* The query at the foot of the loop and the loop condition
FdbDumpNext ==
    /\ walk_pc = "next"
    /\ \E r \in {rtl8365mb_l2_get_next_uc(chip, walk_addr, walk_uc)} :
          /\ chip' = r.chip
          /\ IF r.ret # "OK"
             THEN /\ walk_pc' = "done" /\ walk_ret' = r.ret
                  /\ UNCHANGED << walk_addr, walk_uc >>
             ELSE /\ walk_addr' = r.addr /\ walk_uc' = r.uc
                  /\ IF r.addr > first_addr
                     THEN walk_pc' = "body" /\ walk_ret' = walk_ret
                     ELSE walk_pc' = "done" /\ walk_ret' = "OK"
    /\ UNCHANGED << walk_port, first_addr, walk_seen, walk_cb >>

WalkNext == FdbDumpFirst \/ FdbDumpBody \/ FdbDumpNext

\* The slots that hold a unicast entry, in the order of their addresses
RECURSIVE SortedSeq(_)
SortedSeq(S) == IF S = {} THEN << >> ELSE << SetMin(S) >> \o SortedSeq(S \ {SetMin(S)})

WalkUnicastSlots ==
    {a \in DOMAIN chip.l2 : L2Occupied(chip.l2, a) /\ ~L2IsMc(chip.l2[a])}

\* C3: with a chip that answers a next query past the last occupied slot
\* with the address of the query unchanged, the walk ends with success
\* having visited the slots of the unicast entries, each exactly once, and
\* no other slot on its way; on an empty table it ends at once with success.
C3_WalkVisitsEachOnce ==
    chip.next = "same"
    => /\ Len(walk_seen) <= Cardinality(WalkUnicastSlots)
       /\ walk_seen = SubSeq(SortedSeq(WalkUnicastSlots), 1, Len(walk_seen))
       /\ walk_pc = "done" => /\ walk_ret = "OK"
                              /\ walk_seen = SortedSeq(WalkUnicastSlots)

\* The same property of the walk on a chip that wraps around to the first
\* unicast entry
WalkOnWrappingChip ==
    (chip.next = "wrap" /\ walk_pc = "done")
    => /\ walk_ret = "OK"
       /\ walk_seen = SortedSeq(WalkUnicastSlots)

WalkTerminated == walk_pc = "done"

----------------------------------------------------------------------------
\* The bit-banged SMI transport (realtek-smi.c)

REALTEK_SMI_ACK_RETRY_COUNT == 5

\* priv->variant->cmd_read and cmd_write of the rtl8365mb
cmd_read == 185
cmd_write == 184

\* A pin operation is << kind, pin, value >>: gpiod_direction_output,
\* gpiod_set_value, gpiod_get_value (with the value sampled) and
\* gpiod_direction_input
GpioOut(pin, v) == << "out", pin, v >>
GpioSet(pin, v) == << "set", pin, v >>
GpioGet(pin, v) == << "get", pin, v >>
GpioIn(pin) == << "in", pin, 0 >>

\* realtek_smi_start(): the pin operations of the start condition
realtek_smi_start ==
    << GpioOut("mdc", 0), GpioOut("mdio", 1),
       GpioSet("mdc", 1), GpioSet("mdc", 0),
       GpioSet("mdc", 1), GpioSet("mdio", 0), GpioSet("mdc", 0),
       GpioSet("mdio", 1) >>

\* realtek_smi_stop(): the stop condition, an extra click, pins to input
realtek_smi_stop ==
    << GpioSet("mdio", 0), GpioSet("mdc", 1), GpioSet("mdio", 1),
       GpioSet("mdc", 1), GpioSet("mdc", 0), GpioSet("mdc", 1),
       GpioSet("mdc", 0), GpioSet("mdc", 1),
       GpioIn("mdio"), GpioIn("mdc") >>

\* The bits of data least significant first
smi_write_bits_lsb_first(data, len) ==
    [i \in 1..(3 * len) |->
        IF i % 3 = 1
        THEN GpioSet("mdio", IF And(data, Shl(1, (i - 1) \div 3)) # 0 THEN 1 ELSE 0)
        ELSE IF i % 3 = 2 THEN GpioSet("mdc", 1) ELSE GpioSet("mdc", 0)]

\* realtek_smi_write_bits(): for len down to 1, bit len - 1 of data on the
\* data line, then the clock up and down
RECURSIVE realtek_smi_write_bits(_, _)
realtek_smi_write_bits(data, len) ==
    IF len = 0 THEN << >>
    ELSE << GpioSet("mdio", IF And(data, Shl(1, len - 1)) # 0 THEN 1 ELSE 0),
            GpioSet("mdc", 1), GpioSet("mdc", 0) >>
         \o realtek_smi_write_bits(data, len - 1)

\* The loop of realtek_smi_read_bits(): line[i] is the level of the data
\* line at the i-th sample
RECURSIVE SmiReadLoop(_, _, _, _)
SmiReadLoop(len, line, data, ops) ==
    IF len = 0 THEN [data |-> data, ops |-> ops]
    ELSE SmiReadLoop(len - 1, Tail(line),
                     Or(data, Shl(IF Head(line) # 0 THEN 1 ELSE 0, len - 1)),
                     ops \o << GpioSet("mdc", 1), GpioGet("mdio", Head(line)),
                               GpioSet("mdc", 0) >>)

\* realtek_smi_read_bits(): the data line is an input while the bits are
\* sampled, most significant first, and an output again afterwards
realtek_smi_read_bits(len, line) ==
    With(SmiReadLoop(len, line, 0, << GpioIn("mdio") >>),
         LAMBDA r : [data |-> r.data, ops |-> r.ops \o << GpioOut("mdio", 0) >>])

\* The iteration with the time-out one poll early
SmiAckIteration_early(retry_cnt, level) ==
    With(realtek_smi_read_bits(1, << level >>),
         LAMBDA r :
            IF r.data = 0
            THEN [ret |-> "OK", retry_cnt |-> retry_cnt, ops |-> r.ops]
            ELSE IF retry_cnt + 1 >= REALTEK_SMI_ACK_RETRY_COUNT
            THEN [ret |-> "ETIMEDOUT", retry_cnt |-> retry_cnt + 1, ops |-> r.ops]
            ELSE [ret |-> "again", retry_cnt |-> retry_cnt + 1, ops |-> r.ops])

\* One iteration of the loop of realtek_smi_wait_for_ack(): the bit read,
\* the break on an acknowledge, the retry counter and the time-out
SmiAckIteration(retry_cnt, level) ==
    With(realtek_smi_read_bits(1, << level >>),
         LAMBDA r :
            IF r.data = 0
            THEN [ret |-> "OK", retry_cnt |-> retry_cnt, ops |-> r.ops]
            ELSE IF retry_cnt + 1 > REALTEK_SMI_ACK_RETRY_COUNT
            THEN [ret |-> "ETIMEDOUT", retry_cnt |-> retry_cnt + 1, ops |-> r.ops]
            ELSE [ret |-> "again", retry_cnt |-> retry_cnt + 1, ops |-> r.ops])

\* The levels of the data line for a byte the chip sends, in sampling order
SmiByteLine(b) == [i \in 1..8 |-> And(Shr(b, 8 - i), 1)]

\* realtek_smi_read_byte0() and realtek_smi_read_byte1(): eight bits read,
\* then one bit written, 0 after the first byte and 1 after the last
realtek_smi_read_byte(line, ackbit) ==
    With(realtek_smi_read_bits(8, line),
         LAMBDA r : [data |-> And(r.data, 255),
                     ops |-> r.ops \o realtek_smi_write_bits(ackbit, 1)])

\* The k-th byte of a frame as the u8 argument of realtek_smi_write_byte()
SmiFrameByte(th, k) ==
    CASE k = 0 -> IF th.kind = "read" THEN cmd_read ELSE cmd_write
      [] k = 1 -> And(th.addr, 255)
      [] k = 2 -> And(Shr(th.addr, 8), 255)
      [] k = 3 -> And(th.data, 255)
      [] OTHER -> And(Shr(th.data, 8), 255)

\* The number of bytes a frame writes
SmiFrameLen(th) == IF th.kind = "read" THEN 3 ELSE 5

VARIABLES smi_lock, smi_thr, smi_wire, smi_chip

smiVars == << smi_lock, smi_thr, smi_wire, smi_chip >>

\* A lock that never makes a caller wait
SpinNeverWaits(lock) == TRUE

\* spin_lock_irqsave(&priv->lock) proceeds when the lock is free
SpinFree(lock) == lock = 0

\* A call of realtek_smi_read_reg (with *data as the caller left it) or of
\* realtek_smi_write_reg
SmiCall(kind, addr, data, ack) ==
    [pc |-> "lock", kind |-> kind, addr |-> addr, data |-> data, ack |-> ack,
     val |-> 65535, k |-> 0, retry_cnt |-> 0, nreads |-> 0, ret |-> "none",
     calls |-> << >>]

SmiIdleThread == [SmiCall("read", 0, 0, TRUE) EXCEPT !.pc = "idle"]

RTL8365MB_CHIP_RESET_REG == 4898
RTL8365MB_CHIP_RESET_HW_MASK == 1

\* rtl8365mb_reset_chip(): the one caller of priv->write_reg_noack, which
\* is realtek_smi_write_reg() with ack false
SmiResetCall ==
    SmiCall("write", RTL8365MB_CHIP_RESET_REG,
            FIELD_PREP(RTL8365MB_CHIP_RESET_HW_MASK, 1), FALSE)

\* The calls the callers make: realtek_smi_read() and realtek_smi_write()
\* of register 0x1304, both with ack true, and the reset of the chip
SmiCalls ==
    {SmiCall("read", 4868, 0, TRUE),
     SmiCall("write", 4868, 42405, TRUE),
     SmiResetCall}

\* A write that sends its last two bytes with realtek_smi_write_byte_noack()
SmiNoAck_both_data_bytes(th) == th.kind = "write" /\ th.k >= 3 /\ ~th.ack

\* The byte that realtek_smi_write_reg() sends with
\* realtek_smi_write_byte_noack(): DATA[15:8] when ack is false
SmiNoAck(th) == th.kind = "write" /\ th.k = 4 /\ ~th.ack

\* The chip: it acknowledges the bytes before byte silent of a frame, each
\* after delay polls, and none from byte silent on; val is the register
\* value it sends
SmiChips ==
    {[silent |-> sl, delay |-> d, val |-> 50010] :
        sl \in {0, 2, 4, 5}, d \in {0, REALTEK_SMI_ACK_RETRY_COUNT}}

\* The level of the data line at a poll for the acknowledge of byte k
SmiAckLevel(c, k, retry_cnt) ==
    IF k >= c.silent THEN 1 ELSE IF retry_cnt < c.delay THEN 1 ELSE 0

SmiIdle ==
    /\ smi_lock = 0 /\ smi_wire = << >>
    /\ smi_thr = [t \in Callers |-> SmiIdleThread]
    /\ smi_chip = [silent |-> 5, delay |-> 0, val |-> 0]

SmiInit ==
    /\ smi_lock = 0 /\ smi_wire = << >>
    /\ smi_thr = [t \in Callers |-> SmiIdleThread]
    /\ smi_chip \in SmiChips

\* The pin operations of caller t
SmiTag(t, ops) == [i \in 1..Len(ops) |-> << t >> \o ops[i]]

SmiCallReg(t) ==
    /\ smi_thr[t].pc = "idle"
    /\ \E c \in SmiCalls : smi_thr' = [smi_thr EXCEPT ![t] = c]
    /\ UNCHANGED << smi_lock, smi_wire, smi_chip >>

\* spin_lock_irqsave() and realtek_smi_start()
SmiLock(t) ==
    /\ smi_thr[t].pc = "lock"
    /\ SpinFree(smi_lock)
    /\ smi_lock' = t
    /\ smi_wire' = smi_wire \o SmiTag(t, realtek_smi_start)
    /\ smi_thr' = [smi_thr EXCEPT ![t].pc = "byte",
                                  ![t].calls = << << "start", 0 >> >>]
    /\ UNCHANGED smi_chip

\* realtek_smi_write_byte() up to the wait for the acknowledge, or
\* realtek_smi_write_byte_noack() for the last byte of a write without
SmiWriteByte(t) ==
    LET th == smi_thr[t]
        b == SmiFrameByte(th, th.k)
        noack == SmiNoAck(th)
    IN  /\ th.pc = "byte"
        /\ smi_wire' = smi_wire \o SmiTag(t, realtek_smi_write_bits(b, 8))
        /\ smi_thr' = [smi_thr EXCEPT ![t] =
              [th EXCEPT !.calls = Append(th.calls,
                                     << IF noack THEN "write_byte_noack"
                                        ELSE "write_byte", b >>),
                         !.retry_cnt = 0, !.nreads = 0,
                         !.pc = IF noack THEN "stop" ELSE "ack",
                         !.ret = IF noack THEN "OK" ELSE th.ret]]
        /\ UNCHANGED << smi_lock, smi_chip >>

\* A caller that goes on with the next byte after a time-out
SmiAfterAck_goes_on(th, r) ==
    IF r.ret = "again"
    THEN [th EXCEPT !.retry_cnt = r.retry_cnt, !.nreads = th.nreads + 1]
    ELSE IF th.k + 1 < SmiFrameLen(th)
    THEN [th EXCEPT !.nreads = th.nreads + 1, !.k = th.k + 1, !.pc = "byte"]
    ELSE IF th.kind = "read"
    THEN [th EXCEPT !.nreads = th.nreads + 1, !.pc = "rd"]
    ELSE [th EXCEPT !.nreads = th.nreads + 1, !.ret = r.ret, !.pc = "stop"]

\* The caller after one poll of the wait: another poll, or the test of the
\* return code of realtek_smi_write_byte(): goto out on an error, else the
\* next byte, the data bytes of a read, or ret = 0
SmiAfterAck(th, r) ==
    IF r.ret = "again"
    THEN [th EXCEPT !.retry_cnt = r.retry_cnt, !.nreads = th.nreads + 1]
    ELSE IF r.ret # "OK"
    THEN [th EXCEPT !.retry_cnt = r.retry_cnt, !.nreads = th.nreads + 1,
                    !.ret = r.ret, !.pc = "stop"]
    ELSE IF th.k + 1 < SmiFrameLen(th)
    THEN [th EXCEPT !.nreads = th.nreads + 1, !.k = th.k + 1, !.pc = "byte"]
    ELSE IF th.kind = "read"
    THEN [th EXCEPT !.nreads = th.nreads + 1, !.pc = "rd"]
    ELSE [th EXCEPT !.nreads = th.nreads + 1, !.ret = "OK", !.pc = "stop"]

\* One poll of realtek_smi_wait_for_ack()
SmiAckPoll(t) ==
    LET th == smi_thr[t]
    IN  /\ th.pc = "ack"
        /\ \E r \in {SmiAckIteration(th.retry_cnt,
                                     SmiAckLevel(smi_chip, th.k, th.retry_cnt))} :
              /\ smi_wire' = smi_wire \o SmiTag(t, r.ops)
              /\ smi_thr' = [smi_thr EXCEPT ![t] = SmiAfterAck(th, r)]
        /\ UNCHANGED << smi_lock, smi_chip >>

\* realtek_smi_read_byte0(), realtek_smi_read_byte1() and the value stored
\* through the caller's pointer
SmiReadData(t) ==
    LET th == smi_thr[t]
    IN  /\ th.pc = "rd"
        /\ \E lo \in {realtek_smi_read_byte(SmiByteLine(And(smi_chip.val, 255)), 0)},
              hi \in {realtek_smi_read_byte(SmiByteLine(Shr(smi_chip.val, 8)), 1)} :
              /\ smi_wire' = smi_wire \o SmiTag(t, lo.ops \o hi.ops)
              /\ smi_thr' = [smi_thr EXCEPT ![t] =
                    [th EXCEPT !.val = Or(lo.data, Shl(hi.data, 8)),
                               !.calls = th.calls \o << << "read_byte0", lo.data >>,
                                                        << "read_byte1", hi.data >> >>,
                               !.ret = "OK", !.pc = "stop"]]
        /\ UNCHANGED << smi_lock, smi_chip >>

\* The label out: realtek_smi_stop() and spin_unlock_irqrestore()
SmiStop(t) ==
    LET th == smi_thr[t]
    IN  /\ th.pc = "stop"
        /\ smi_wire' = smi_wire \o SmiTag(t, realtek_smi_stop)
        /\ smi_lock' = 0
        /\ smi_thr' = [smi_thr EXCEPT ![t].pc = "done",
                                      ![t].calls = Append(th.calls, << "stop", 0 >>)]
        /\ UNCHANGED smi_chip

SmiNext ==
    \E t \in Callers :
        \/ SmiCallReg(t) \/ SmiLock(t) \/ SmiWriteByte(t) \/ SmiAckPoll(t)
        \/ SmiReadData(t) \/ SmiStop(t)

\* The pin operations of caller t on the wire, without the tag
SmiWireOf(t) ==
    LET own == SelectSeq(smi_wire, LAMBDA e : e[1] = t)
    IN  [i \in 1..Len(own) |-> << own[i][2], own[i][3], own[i][4] >>]

\* The number of bits sampled since the data line was last driven for a bit
\* of a byte: the one-bit reads of the wait for the acknowledge
SmiTrailingReads(w) ==
    LET sets == {i \in 1..Len(w) : w[i][1] = "set" /\ w[i][2] = "mdio"}
        last == IF sets = {} THEN 0 ELSE CHOOSE i \in sets : \A j \in sets : j <= i
    IN  Cardinality({i \in (last + 1)..Len(w) : w[i][1] = "get"})

\* C11 (as stated): a wait for the acknowledge that times out has made
\* exactly REALTEK_SMI_ACK_RETRY_COUNT = 5 one-bit reads.
C11_TimeoutAfterFiveReads ==
    \A t \in Callers :
        (smi_thr[t].pc = "stop" /\ smi_thr[t].ret = "ETIMEDOUT")
        => /\ smi_thr[t].nreads = REALTEK_SMI_ACK_RETRY_COUNT
           /\ SmiTrailingReads(SmiWireOf(t)) = REALTEK_SMI_ACK_RETRY_COUNT

\* C11 (amended): with a chip that does not acknowledge a byte, the wait
\* for the acknowledge makes exactly REALTEK_SMI_ACK_RETRY_COUNT + 1 = 6
\* one-bit reads, the first attempt and five retries, and returns
\* -ETIMEDOUT; no wait makes more reads than that.
C11_TimeoutAfterSixReads ==
    \A t \in Callers :
        LET th == smi_thr[t]
        IN  /\ th.nreads <= REALTEK_SMI_ACK_RETRY_COUNT + 1
            /\ (th.pc = "stop" /\ th.nreads > 0 /\ th.k >= smi_chip.silent)
               => th.ret = "ETIMEDOUT"
            /\ (th.pc = "stop" /\ th.ret = "ETIMEDOUT")
               => /\ th.nreads = REALTEK_SMI_ACK_RETRY_COUNT + 1
                  /\ SmiTrailingReads(SmiWireOf(t)) = REALTEK_SMI_ACK_RETRY_COUNT + 1
                  /\ th.k >= smi_chip.silent

\* The wait for the acknowledge of the command byte has timed out on a chip
\* that acknowledges nothing
C11_Witness ==
    \E t \in Callers :
        /\ smi_chip.silent = 0
        /\ smi_thr[t].pc = "stop" /\ smi_thr[t].ret = "ETIMEDOUT"
        /\ smi_thr[t].k = 0 /\ smi_thr[t].nreads > 0

\* The calls of a frame whose byte k was the last one written
SmiCallsUpTo(th, k) ==
    << << "start", 0 >> >>
    \o [i \in 1..(k + 1) |-> << "write_byte", SmiFrameByte(th, i - 1) >>]
    \o << << "stop", 0 >> >>

\* C12: when the wait for the acknowledge of byte k of a frame has timed
\* out, the frame has written the bytes up to k and no more, has read no
\* data byte, has issued stop() once, has left the critical section and
\* returns -ETIMEDOUT; a read has left the caller's value as it was.
C12_TimeoutAbortsFrame ==
    \A t \in Callers :
        LET th == smi_thr[t]
            w == SmiWireOf(t)
        IN  (th.pc = "done" /\ th.k >= smi_chip.silent
                /\ ~(th.kind = "write" /\ ~th.ack /\ th.k = 4))
            => /\ th.ret = "ETIMEDOUT"
               /\ th.k = smi_chip.silent
               /\ th.calls = SmiCallsUpTo(th, th.k)
               /\ Cardinality({i \in 1..Len(w) : w[i] = GpioIn("mdc")}) = 1
               /\ SubSeq(w, Len(w) - Len(realtek_smi_stop) + 1, Len(w)) = realtek_smi_stop
               /\ Cardinality({i \in 1..Len(w) : w[i][1] = "set" /\ w[i][2] = "mdio"})
                    = 2 + 8 * (th.k + 1) + 2
               /\ Cardinality({i \in 1..Len(w) : w[i][1] = "get"})
                    = th.k * (smi_chip.delay + 1) + REALTEK_SMI_ACK_RETRY_COUNT + 1
               /\ smi_lock # t
               /\ th.val = 65535

\* A read whose second address byte was not acknowledged has returned
C12_Witness ==
    \E t \in Callers :
        /\ smi_thr[t].pc = "done" /\ smi_thr[t].kind = "read"
        /\ smi_thr[t].ret = "ETIMEDOUT" /\ smi_thr[t].k = 2
        /\ smi_chip.silent = 2

\* Bit n of a number, by division
BitOf(x, n) == (x \div (2 ^ n)) % 2

\* A byte on the wire, most significant bit first, one clock pulse a bit
WireByteOut(b) ==
    [i \in 1..24 |->
        CASE i % 3 = 1 -> << "set", "mdio", BitOf(b, 7 - ((i - 1) \div 3)) >>
          [] i % 3 = 2 -> << "set", "mdc", 1 >>
          [] OTHER -> << "set", "mdc", 0 >>]

\* A byte sampled from the wire, most significant bit first, between the
\* turn of the data line to input and back to output
WireByteIn(b) ==
    << << "in", "mdio", 0 >> >>
    \o [i \in 1..24 |->
          CASE i % 3 = 1 -> << "set", "mdc", 1 >>
            [] i % 3 = 2 -> << "get", "mdio", BitOf(b, 7 - ((i - 1) \div 3)) >>
            [] OTHER -> << "set", "mdc", 0 >>]
    \o << << "out", "mdio", 0 >> >>

\* One sampled bit
WireBitIn(u) ==
    << << "in", "mdio", 0 >>, << "set", "mdc", 1 >>, << "get", "mdio", u >>,
       << "set", "mdc", 0 >>, << "out", "mdio", 0 >> >>

\* One written bit
WireBitOut(u) ==
    << << "set", "mdio", u >>, << "set", "mdc", 1 >>, << "set", "mdc", 0 >> >>

\* The polls of an acknowledge that comes after delay polls
RECURSIVE WireAck(_)
WireAck(delay) ==
    IF delay = 0 THEN WireBitIn(0) ELSE WireBitIn(1) \o WireAck(delay - 1)

\* A written byte and its acknowledge
WireByteAcked(b) == WireByteOut(b) \o WireAck(smi_chip.delay)

\* C13: a successful write has called start(), write_byte() for the write
\* command, the low and the high address byte, the low and the high data
\* byte, and stop(), in this order; a successful read has called start(),
\* write_byte() for the read command and the two address bytes, has read
\* the low and then the high data byte, has called stop() and returns
\* low | (high << 8); on the wire every byte goes most significant bit
\* first with one clock pulse per bit.
C13_FrameOrder ==
    \A t \in Callers :
        LET th == smi_thr[t]
            lo == smi_chip.val % 256
            hi == smi_chip.val \div 256
        IN  (th.pc = "done" /\ th.ret = "OK")
            => IF th.kind = "write"
               THEN /\ th.calls =
                         << << "start", 0 >>, << "write_byte", cmd_write >>,
                            << "write_byte", th.addr % 256 >>,
                            << "write_byte", th.addr \div 256 >>,
                            << "write_byte", th.data % 256 >>,
                            << IF th.ack THEN "write_byte" ELSE "write_byte_noack",
                               th.data \div 256 >>,
                            << "stop", 0 >> >>
                    /\ SmiWireOf(t) =
                         realtek_smi_start
                         \o WireByteAcked(cmd_write)
                         \o WireByteAcked(th.addr % 256)
                         \o WireByteAcked(th.addr \div 256)
                         \o WireByteAcked(th.data % 256)
                         \o (IF th.ack THEN WireByteAcked(th.data \div 256)
                             ELSE WireByteOut(th.data \div 256))
                         \o realtek_smi_stop
               ELSE /\ th.calls =
                         << << "start", 0 >>, << "write_byte", cmd_read >>,
                            << "write_byte", th.addr % 256 >>,
                            << "write_byte", th.addr \div 256 >>,
                            << "read_byte0", lo >>, << "read_byte1", hi >>,
                            << "stop", 0 >> >>
                    /\ th.val = lo + 256 * hi
                    /\ SmiWireOf(t) =
                         realtek_smi_start
                         \o WireByteAcked(cmd_read)
                         \o WireByteAcked(th.addr % 256)
                         \o WireByteAcked(th.addr \div 256)
                         \o WireByteIn(lo) \o WireBitOut(0)
                         \o WireByteIn(hi) \o WireBitOut(1)
                         \o realtek_smi_stop

\* A write and a read have both succeeded, on a chip whose acknowledges
\* come late
C13_Witness ==
    \E t \in Callers, u \in Callers :
        /\ smi_thr[t].pc = "done" /\ smi_thr[t].ret = "OK"
        /\ smi_thr[t].kind = "write" /\ smi_thr[t].ack
        /\ smi_thr[u].pc = "done" /\ smi_thr[u].ret = "OK"
        /\ smi_thr[u].kind = "read" /\ smi_thr[u].val = 50010
        /\ smi_chip.delay = REALTEK_SMI_ACK_RETRY_COUNT

\* The callers inside the critical section
SmiInFrame == {t \in Callers : smi_thr[t].pc \in {"byte", "ack", "rd", "stop"}}

\* C14: a frame runs from start() through stop() inside the critical
\* section: at most one caller is inside a frame and it holds the lock, and
\* on the wire the pin operations of one frame are never interleaved with
\* those of another, so that a second start() comes after the first stop().
C14_FramesExclusive ==
    /\ Cardinality(SmiInFrame) <= 1
    /\ \A t \in SmiInFrame : smi_lock = t
    /\ Cardinality({i \in 1..(Len(smi_wire) - 1) :
                        smi_wire[i][1] # smi_wire[i + 1][1]}) <= 1
    /\ \A i \in 1..(Len(smi_wire) - 1) :
          smi_wire[i][1] # smi_wire[i + 1][1]
          => /\ << smi_wire[i][2], smi_wire[i][3], smi_wire[i][4] >> = GpioIn("mdc")
             /\ << smi_wire[i + 1][2], smi_wire[i + 1][3], smi_wire[i + 1][4] >>
                  = GpioOut("mdc", 0)

\* One caller polls for the acknowledge of its fourth byte, holding the
\* lock, while the other caller waits for the lock
C14_Witness ==
    \E t \in Callers, u \in Callers :
        /\ t # u
        /\ smi_thr[t].pc = "ack" /\ smi_thr[t].k = 3
        /\ smi_thr[u].pc = "lock"
        /\ smi_lock = t

\* The number of times caller t has sampled the data line
SmiGets(t) ==
    Cardinality({i \in 1..Len(SmiWireOf(t)) : SmiWireOf(t)[i][1] = "get"})

\* The bytes caller t has sent with and without a wait for the acknowledge
SmiSentAck(t) ==
    {i \in 1..Len(smi_thr[t].calls) : smi_thr[t].calls[i][1] = "write_byte"}

SmiSentNoAck(t) ==
    {i \in 1..Len(smi_thr[t].calls) : smi_thr[t].calls[i][1] = "write_byte_noack"}

\* C25: the byte write without acknowledge sends its eight bits and returns
\* success without sampling the data line, and it sends one byte only: the
\* last data byte of the write of the chip reset register; every other byte
\* of every frame, the first four bytes of the reset write among them, is
\* followed by the wait for its acknowledge before the next byte is sent.
C25_NoAckOnlyOnResetByte ==
    \A t \in Callers :
        LET th == smi_thr[t]
            acked == Cardinality(SmiSentAck(t))
        IN  /\ SmiSentNoAck(t) \subseteq {6}
            /\ SmiSentNoAck(t) # {}
               => /\ th.kind = "write"
                  /\ th.addr = RTL8365MB_CHIP_RESET_REG
                  /\ th.calls[6][2] = th.data \div 256
                  /\ acked = 4
                  /\ th.pc \in {"stop", "done"} /\ th.ret = "OK"
                  /\ SmiGets(t) = 4 * (smi_chip.delay + 1)
                  /\ SubSeq(SmiWireOf(t), 1,
                            Len(realtek_smi_start) + 4 * (24 + 5 * (smi_chip.delay + 1)) + 24)
                       = realtek_smi_start
                         \o WireByteAcked(cmd_write)
                         \o WireByteAcked(th.addr % 256)
                         \o WireByteAcked(th.addr \div 256)
                         \o WireByteAcked(th.data % 256)
                         \o WireByteOut(th.data \div 256)
            /\ th.pc = "byte"
               => acked = th.k /\ SmiGets(t) = th.k * (smi_chip.delay + 1)
            /\ (th.pc \in {"stop", "done"} /\ th.kind = "write" /\ SmiSentNoAck(t) = {})
               => /\ SmiGets(t) >= acked
                  /\ th.ret = "OK" => /\ acked = 5
                                      /\ SmiGets(t) = 5 * (smi_chip.delay + 1)

\* The reset write has returned success on a chip that acknowledged the
\* first four bytes late and the last byte not at all; the other caller
\* waits for the acknowledge of the last byte of its write
C25_Witness ==
    \E t \in Callers, u \in Callers :
        /\ smi_thr[t].pc = "done" /\ smi_thr[t].ret = "OK"
        /\ smi_thr[t].addr = RTL8365MB_CHIP_RESET_REG /\ ~smi_thr[t].ack
        /\ smi_chip.silent = 4 /\ smi_chip.delay = REALTEK_SMI_ACK_RETRY_COUNT
        /\ SmiSentNoAck(t) = {6}
        /\ smi_thr[u].pc = "ack" /\ smi_thr[u].k = 4 /\ smi_thr[u].kind = "write"

----------------------------------------------------------------------------
\* The indirect-address MDIO transport (realtek-mdio.c)

MDC_MDIO_CTRL0_REG == 31
MDC_MDIO_START_REG == 29
MDC_MDIO_CTRL1_REG == 21
MDC_MDIO_ADDRESS_REG == 23
MDC_MDIO_DATA_WRITE_REG == 24
MDC_MDIO_DATA_READ_REG == 25
MDC_MDIO_START_OP == 65535
MDC_MDIO_ADDR_OP == 14
MDC_MDIO_READ_OP == 1
MDC_MDIO_WRITE_OP == 3

\* The bus operations with the address set before the address-control mode
mdio_ops_address_first(kind, addr, data) ==
    << << "write", MDC_MDIO_START_REG, MDC_MDIO_START_OP >>,
       << "write", MDC_MDIO_ADDRESS_REG, addr >>,
       << "write", MDC_MDIO_START_REG, MDC_MDIO_START_OP >>,
       << "write", MDC_MDIO_CTRL0_REG, MDC_MDIO_ADDR_OP >>,
       << "write", MDC_MDIO_START_REG, MDC_MDIO_START_OP >> >>
    \o (IF kind = "read"
        THEN << << "write", MDC_MDIO_CTRL1_REG, MDC_MDIO_READ_OP >>,
                << "write", MDC_MDIO_START_REG, MDC_MDIO_START_OP >>,
                << "read", MDC_MDIO_DATA_READ_REG, 0 >> >>
        ELSE << << "write", MDC_MDIO_DATA_WRITE_REG, data >>,
                << "write", MDC_MDIO_START_REG, MDC_MDIO_START_OP >>,
                << "write", MDC_MDIO_CTRL1_REG, MDC_MDIO_WRITE_OP >> >>)

\* The bus operations of realtek_mdio_read_reg() and of
\* realtek_mdio_write_reg() between mutex_lock and mutex_unlock, in
\* program order
realtek_mdio_ops(kind, addr, data) ==
    << << "write", MDC_MDIO_START_REG, MDC_MDIO_START_OP >>,
       << "write", MDC_MDIO_CTRL0_REG, MDC_MDIO_ADDR_OP >>,
       << "write", MDC_MDIO_START_REG, MDC_MDIO_START_OP >>,
       << "write", MDC_MDIO_ADDRESS_REG, addr >>,
       << "write", MDC_MDIO_START_REG, MDC_MDIO_START_OP >> >>
    \o (IF kind = "read"
        THEN << << "write", MDC_MDIO_CTRL1_REG, MDC_MDIO_READ_OP >>,
                << "write", MDC_MDIO_START_REG, MDC_MDIO_START_OP >>,
                << "read", MDC_MDIO_DATA_READ_REG, 0 >> >>
        ELSE << << "write", MDC_MDIO_DATA_WRITE_REG, data >>,
                << "write", MDC_MDIO_START_REG, MDC_MDIO_START_OP >>,
                << "write", MDC_MDIO_CTRL1_REG, MDC_MDIO_WRITE_OP >> >>)

\* The int a failing bus->read returns: -EIO or -ETIMEDOUT. Stored through
\* the u32 pointer it is the bit pattern 2^32 minus the error number, kept
\* here as the negative number
BusErrno(e) == IF e = "EIO" THEN 0 - 5 ELSE 0 - 110

VARIABLES mdio_lock, mdio_thr, mdio_bus

mdioVars == << mdio_lock, mdio_thr, mdio_bus >>

\* A call of realtek_mdio_read_reg or realtek_mdio_write_reg: i counts the
\* bus operations done, val is *data, first_err the return code of the
\* first bus operation that failed
MdioCall(kind, addr, data) ==
    [pc |-> "lock", kind |-> kind, addr |-> addr, data |-> data, i |-> 0,
     val |-> 65535, first_err |-> "none", ret |-> "none"]

MdioIdleThread == [MdioCall("read", 0, 0) EXCEPT !.pc = "idle"]

MdioCalls == {MdioCall("read", 4868, 0), MdioCall("write", 4868, 42405)}

\* The return codes of bus->read and bus->write
BusResults == {"OK", "EIO", "ETIMEDOUT"}

MdioIdle ==
    /\ mdio_lock = 0 /\ mdio_bus = << >>
    /\ mdio_thr = [t \in Callers |-> MdioIdleThread]

MdioInit == MdioIdle

MdioCallReg(t) ==
    /\ mdio_thr[t].pc = "idle"
    /\ \E c \in MdioCalls : mdio_thr' = [mdio_thr EXCEPT ![t] = c]
    /\ UNCHANGED << mdio_lock, mdio_bus >>

\* mutex_lock(&bus->mdio_lock)
MdioLock(t) ==
    /\ mdio_thr[t].pc = "lock"
    /\ MutexFree(mdio_lock)
    /\ mdio_lock' = t
    /\ mdio_thr' = [mdio_thr EXCEPT ![t].pc = "bus"]
    /\ UNCHANGED mdio_bus

\* The next bus->write or bus->read of the call: the return code of a
\* write is dropped, that of the read is stored through data
MdioBusOp(t) ==
    LET th == mdio_thr[t]
        ops == realtek_mdio_ops(th.kind, th.addr, th.data)
        op == ops[th.i + 1]
    IN  /\ th.pc = "bus"
        /\ \E res \in BusResults :
              /\ mdio_bus' = Append(mdio_bus, << t >> \o op)
              /\ mdio_thr' = [mdio_thr EXCEPT ![t] =
                    [th EXCEPT
                        !.i = th.i + 1,
                        !.first_err = IF th.first_err = "none" /\ res # "OK"
                                      THEN res ELSE th.first_err,
                        !.val = IF op[1] = "read"
                                THEN (IF res = "OK" THEN 50010 ELSE BusErrno(res))
                                ELSE th.val,
                        !.pc = IF th.i + 1 = Len(ops) THEN "unlock" ELSE "bus"]]
        /\ UNCHANGED mdio_lock

\* mutex_unlock(&bus->mdio_lock) and return 0
MdioUnlock(t) ==
    /\ mdio_thr[t].pc = "unlock"
    /\ mdio_lock' = 0
    /\ mdio_thr' = [mdio_thr EXCEPT ![t].pc = "done", ![t].ret = "OK"]
    /\ UNCHANGED mdio_bus

MdioNext ==
    \E t \in Callers :
        \/ MdioCallReg(t) \/ MdioLock(t) \/ MdioBusOp(t) \/ MdioUnlock(t)

\* C15: a register read or write of the MDIO transport returns the error
\* of the first bus operation that failed, and success only when every bus
\* operation succeeded.
C15_FirstErrorReturned ==
    \A t \in Callers :
        mdio_thr[t].pc = "done"
        => mdio_thr[t].ret = (IF mdio_thr[t].first_err = "none" THEN "OK"
                              ELSE mdio_thr[t].first_err)

\* The bus operations of caller t, without the tag
MdioBusOf(t) ==
    LET own == SelectSeq(mdio_bus, LAMBDA e : e[1] = t)
    IN  [i \in 1..Len(own) |-> << own[i][2], own[i][3], own[i][4] >>]

\* The registers of a handshake other than the start register, in order
MdioSteps(w) ==
    LET steps == SelectSeq(w, LAMBDA e : e[2] # MDC_MDIO_START_REG)
    IN  [i \in 1..Len(steps) |-> steps[i][2]]

\* The callers between mutex_lock and mutex_unlock
MdioInHandshake == {t \in Callers : mdio_thr[t].pc \in {"bus", "unlock"}}

\* The handshakes of the callers are not interleaved on the bus
MdioExclusive ==
    /\ Cardinality(MdioInHandshake) <= 1
    /\ \A t \in MdioInHandshake : mdio_lock = t
    /\ Cardinality({i \in 1..(Len(mdio_bus) - 1) :
                        mdio_bus[i][1] # mdio_bus[i + 1][1]}) <= 1

\* C16 (as stated): every register access, read as well as write, selects
\* the address-control mode, sets the address, transfers the data and then
\* selects the data/command mode, under one lock acquisition.
C16_HandshakeOrder ==
    /\ MdioExclusive
    /\ \A t \in Callers :
          mdio_thr[t].pc = "done"
          => MdioSteps(MdioBusOf(t)) =
                << MDC_MDIO_CTRL0_REG, MDC_MDIO_ADDRESS_REG,
                   IF mdio_thr[t].kind = "read" THEN MDC_MDIO_DATA_READ_REG
                   ELSE MDC_MDIO_DATA_WRITE_REG,
                   MDC_MDIO_CTRL1_REG >>

\* C16 (amended): a write selects the address-control mode, sets the
\* address, writes the data and then writes the write command; a read
\* selects the address-control mode, sets the address, writes the read
\* command and then reads the data; each of the four operations follows a
\* write of the start command, and the handshake runs under one lock
\* acquisition, not interleaved with the handshake of another caller.
C16_HandshakeOrderByKind ==
    /\ MdioExclusive
    /\ \A t \in Callers :
          LET th == mdio_thr[t]
              start == << "write", MDC_MDIO_START_REG, MDC_MDIO_START_OP >>
          IN  th.pc = "done"
              => MdioBusOf(t) =
                   IF th.kind = "write"
                   THEN << start, << "write", MDC_MDIO_CTRL0_REG, MDC_MDIO_ADDR_OP >>,
                           start, << "write", MDC_MDIO_ADDRESS_REG, th.addr >>,
                           start, << "write", MDC_MDIO_DATA_WRITE_REG, th.data >>,
                           start, << "write", MDC_MDIO_CTRL1_REG, MDC_MDIO_WRITE_OP >> >>
                   ELSE << start, << "write", MDC_MDIO_CTRL0_REG, MDC_MDIO_ADDR_OP >>,
                           start, << "write", MDC_MDIO_ADDRESS_REG, th.addr >>,
                           start, << "write", MDC_MDIO_CTRL1_REG, MDC_MDIO_READ_OP >>,
                           start, << "read", MDC_MDIO_DATA_READ_REG, 0 >> >>

\* A read has finished and a write is in the middle of its handshake
C16_Witness ==
    \E t \in Callers, u \in Callers :
        /\ mdio_thr[t].pc = "done" /\ mdio_thr[t].kind = "read"
        /\ mdio_thr[t].val = 50010
        /\ mdio_thr[u].pc = "bus" /\ mdio_thr[u].kind = "write" /\ mdio_thr[u].i = 6

----------------------------------------------------------------------------
(***************************************************************************)
(* One caller of rtl8365mb_table_query, over the tables, operations,       *)
(* look-up methods, addresses and entry sizes a query can name.            *)
(*   solo_q0    the call as it was made                                    *)
(*   solo_q     the call as it runs                                        *)
(*   solo_acq   the number of times the call took priv->map_lock           *)
(*   solo_held  the call holds priv->map_lock                              *)
(***************************************************************************)
VARIABLES solo_q0, solo_q, solo_acq, solo_held

soloVars == << solo_q0, solo_q, solo_acq, solo_held >>

\* Buffers of 0, 3, 6, 10 and 11 words; the six-word ones are the keys of a
\* stored and of an absent forwarding database entry
SoloData ==
    {Empty, [i \in 0..2 |-> 257 * (i + 1)],
     rtl8365mb_l2_uc_to_data(L2EntryA), rtl8365mb_l2_uc_to_data(L2EntryAbsent),
     [i \in 0..9 |-> 65535 - i],
     [i \in 0..RTL8365MB_TABLE_ENTRY_MAX_SIZE |-> i + 1]}

\* The look-up methods of enum rtl8365mb_table_l2_method
SoloMethods ==
    {RTL8365MB_TABLE_L2_METHOD_MAC, RTL8365MB_TABLE_L2_METHOD_ADDR,
     RTL8365MB_TABLE_L2_METHOD_ADDR_NEXT, RTL8365MB_TABLE_L2_METHOD_ADDR_NEXT_UC,
     RTL8365MB_TABLE_L2_METHOD_ADDR_NEXT_MC,
     RTL8365MB_TABLE_L2_METHOD_ADDR_NEXT_UC_PORT}

\* Table selectors 0 and 5 are not in enum rtl8365mb_table.  The method is
\* a member of the l2 arm of the argument union: for the other tables the
\* function does not read it
SoloCalls ==
    {TqCall(table, op, method, addr, 9, data) :
        table \in 0..5, op \in {RTL8365MB_TABLE_OP_READ, RTL8365MB_TABLE_OP_WRITE},
        method \in SoloMethods, addr \in {0, 2}, data \in SoloData}

\* Rows with every bit set in the ACL, action and VLAN tables, and the
\* forwarding database of the table section
SoloTables(c) ==
    [c EXCEPT !.l2 = L2Stored,
              !.acl = TblPut(TblPut(Empty, 0, [i \in 0..9 |-> 65535]), 2,
                             [i \in 0..9 |-> 4660 + i]),
              !.act = TblPut(Empty, 0, [i \in 0..9 |-> 65535]),
              !.cvlan = TblPut(Empty, 2, [i \in 0..9 |-> 65535])]

SoloIdle ==
    /\ solo_q0 = TqCall(0, 0, 0, 0, 0, ZeroData3)
    /\ solo_q = solo_q0
    /\ solo_acq = 0
    /\ solo_held = FALSE

SoloInit ==
    /\ solo_q0 \in SoloCalls
    /\ solo_q0.table # RTL8365MB_TABLE_L2
       => solo_q0.method = RTL8365MB_TABLE_L2_METHOD_MAC
    /\ solo_q = solo_q0
    /\ solo_acq = 0
    /\ solo_held = FALSE
    /\ \E lat \in {0, 1} : chip = SoloTables(ChipReset(lat, "wrap"))

\* The argument checks
SoloEntry ==
    /\ solo_q.pc = "entry"
    /\ solo_q' = TqStep(solo_q, chip, FALSE).q
    /\ UNCHANGED << chip, solo_q0, solo_acq, solo_held >>

\* mutex_lock(&priv->map_lock)
SoloLock ==
    /\ solo_q.pc = "lock"
    /\ ~solo_held
    /\ solo_held' = TRUE
    /\ solo_acq' = solo_acq + 1
    /\ solo_q' = TqStep(solo_q, chip, FALSE).q
    /\ UNCHANGED << chip, solo_q0 >>

\* One register operation, which may fail
SoloRegOp ==
    /\ TqIsRegStep(solo_q)
    /\ \E fail \in BOOLEAN :
       \E n \in {TqStep(solo_q, chip, fail)} :
          /\ solo_q' = n.q
          /\ chip' = n.chip
    /\ UNCHANGED << solo_q0, solo_acq, solo_held >>

\* mutex_unlock(&priv->map_lock) and return
SoloUnlock ==
    /\ solo_q.pc = "unlock"
    /\ solo_held' = FALSE
    /\ solo_q' = TqStep(solo_q, chip, FALSE).q
    /\ UNCHANGED << chip, solo_q0, solo_acq >>

SoloNext == SoloEntry \/ SoloLock \/ SoloRegOp \/ SoloUnlock

\* C21: a query for more than ten words returns -E2BIG, a query for a
\* table that is none of the four returns -EINVAL; such a call issues no
\* register operation and never takes the register-map lock, and no other
\* call returns one of the two errors.
C21_ArgumentsRejected ==
    LET big == TqSize(solo_q0) > RTL8365MB_TABLE_ENTRY_MAX_SIZE
        unknown == solo_q0.table \notin 1..4
    IN  /\ (big \/ unknown)
           => /\ solo_q.pc \in {"entry", "done"}
              /\ solo_q.log = << >>
              /\ solo_acq = 0 /\ ~solo_held
              /\ chip \in {SoloTables(ChipReset(lat, "wrap")) : lat \in {0, 1}}
              /\ solo_q.pc = "done"
                 => solo_q.ret = IF big THEN "E2BIG" ELSE "EINVAL"
        /\ solo_q.ret = "E2BIG" => big
        /\ solo_q.ret = "EINVAL" => unknown /\ ~big

\* An eleven-word read of the action table has returned -E2BIG
C21_Witness ==
    /\ solo_q.pc = "done" /\ solo_q.ret = "E2BIG"
    /\ solo_q0.table = RTL8365MB_TABLE_ACL_ACTION
    /\ TqSize(solo_q0) = RTL8365MB_TABLE_ENTRY_MAX_SIZE + 1
    /\ solo_acq = 0

----------------------------------------------------------------------------
\* The range checks of the VLAN setters: a caller stores the values it wants
\* into the struct and hands the struct to the setter

RTL8365MB_VLAN_MC_BASE == 1832

RTL8365MB_VLAN_MC_REG(x) == RTL8365MB_VLAN_MC_BASE + x * 4

RTL8365MB_VLAN_MC_D0_MBR_MASK == 2047

RTL8365MB_VLAN_MC_D1_FID_MASK == 15

RTL8365MB_VLAN_MC_D2_METERIDX_MASK == 2016

RTL8365MB_VLAN_MC_D2_ENVLANPOL_MASK == 16

RTL8365MB_VLAN_MC_D2_VBPRI_MASK == 14

RTL8365MB_VLAN_MC_D2_VBPEN_MASK == 1

RTL8365MB_VLAN_MC_D3_EVID_MASK == 8191

RTL8365MB_NUM_MEMBERCONFIGS == 32

\* The value an unsigned bit-field of the given width holds after an
\* assignment
BitFieldStore(v, width) == v % (2 ^ width)

\* struct rtl8365mb_vlan4k and struct rtl8365mb_vlanmc: u8 fid : 4,
\* u8 priority : 3, u8 meteridx : 6
VlanStructStore(req) ==
    [req EXCEPT !.fid = BitFieldStore(req.fid, 4),
                !.priority = BitFieldStore(req.priority, 3),
                !.meteridx = BitFieldStore(req.meteridx, 6)]

\* The packing of rtl8365mb_vlan_set_vlanmc into a zeroed u16 data[4]; the record's
\* vid field holds the evid
VlanmcPack(vlanmc) ==
    LET d0 == FIELD_PREP(RTL8365MB_VLAN_MC_D0_MBR_MASK, vlanmc.member)
        d1 == FIELD_PREP(RTL8365MB_VLAN_MC_D1_FID_MASK, vlanmc.fid)
        d2 == Or(Or(FIELD_PREP(RTL8365MB_VLAN_MC_D2_METERIDX_MASK, vlanmc.meteridx),
                    FIELD_PREP(RTL8365MB_VLAN_MC_D2_ENVLANPOL_MASK,
                               B2I(vlanmc.policing_en))),
                 Or(FIELD_PREP(RTL8365MB_VLAN_MC_D2_VBPRI_MASK, vlanmc.priority),
                    FIELD_PREP(RTL8365MB_VLAN_MC_D2_VBPEN_MASK,
                               B2I(vlanmc.priority_en))))
        d3 == FIELD_PREP(RTL8365MB_VLAN_MC_D3_EVID_MASK, vlanmc.vid)
    IN [i \in 0..3 |-> CASE i = 0 -> d0 [] i = 1 -> d1 [] i = 2 -> d2 [] OTHER -> d3]

\* The chip after the first n register writes of rtl8365mb_vlan_set_vlanmc
RECURSIVE VlanmcWrites(_, _, _, _)
VlanmcWrites(c, index, data, n) ==
    IF n = 0 THEN c
    ELSE ChipWrite(VlanmcWrites(c, index, data, n - 1),
                   RTL8365MB_VLAN_MC_REG(index) + (n - 1), data[n - 1])

\* rtl8365mb_vlan_set_vlanmc(priv, index, vlanmc): range checks, then four
\* register writes, of which write failat fails (4: none does)
rtl8365mb_vlan_set_vlanmc(c, index, vlanmc, failat) ==
    IF \/ index >= RTL8365MB_NUM_MEMBERCONFIGS
       \/ vlanmc.fid > RTL8365MB_FIDMAX
       \/ vlanmc.priority > RTL8365MB_PRIORITYMAX
       \/ vlanmc.meteridx > RTL8365MB_METERMAX
    THEN [ret |-> "EINVAL", chip |-> c]
    ELSE [ret |-> IF failat < 4 THEN "EIO" ELSE "OK",
          chip |-> VlanmcWrites(c, index, VlanmcPack(vlanmc), failat)]

(***************************************************************************)
(*   vset_pc    "in", "stored", "done"                                     *)
(*   vset_req   the setter called, the index and the field values wanted   *)
(*   vset_e     the struct handed to the setter                            *)
(*   vset_ret   the return code of the setter                              *)
(***************************************************************************)
VARIABLES vset_pc, vset_req, vset_e, vset_ret

vsetVars == << vset_pc, vset_req, vset_e, vset_ret >>

\* Values at the limits of the fields and one beyond them
VsetRequests ==
    {[setter |-> setter, index |-> index,
      e |-> [ZeroVlan4k EXCEPT !.vid = 10, !.member = 7, !.fid = fid,
                               !.priority = prio, !.meteridx = meteridx]] :
        setter \in {"vlan4k", "vlanmc"}, index \in {0, 31, 32},
        fid \in {0, 15, 16}, prio \in {0, 7, 8}, meteridx \in {0, 63, 64}}

VsetIdle ==
    /\ vset_pc = "in" /\ vset_ret = "none" /\ vset_e = ZeroVlan4k
    /\ vset_req = [setter |-> "none", index |-> 0, e |-> ZeroVlan4k]

VsetInit ==
    /\ vset_req \in VsetRequests
    /\ vset_req.setter = "vlan4k" => vset_req.index = 0
    /\ vset_pc = "in" /\ vset_ret = "none" /\ vset_e = ZeroVlan4k
    /\ chip = ChipReset(0, "wrap")

\* The caller fills in the struct
VsetStore ==
    /\ vset_pc = "in"
    /\ vset_e' = VlanStructStore(vset_req.e)
    /\ vset_pc' = "stored"
    /\ UNCHANGED << chip, vset_req, vset_ret >>

\* rtl8365mb_vlan_set_vlan4k(priv, &e)
VsetVlan4k ==
    /\ vset_pc = "stored" /\ vset_req.setter = "vlan4k"
    /\ \E r \in {rtl8365mb_vlan_set_vlan4k(chip, vset_e)} :
          chip' = r.chip /\ vset_ret' = r.ret
    /\ vset_pc' = "done"
    /\ UNCHANGED << vset_req, vset_e >>

\* rtl8365mb_vlan_set_vlanmc_entry(priv, entry), that is
\* rtl8365mb_vlan_set_vlanmc(priv, entry->index, &entry->vlanmc)
VsetVlanmc ==
    /\ vset_pc = "stored" /\ vset_req.setter = "vlanmc"
    /\ \E failat \in 0..4 :
       \E r \in {rtl8365mb_vlan_set_vlanmc(chip, vset_req.index, vset_e, failat)} :
          chip' = r.chip /\ vset_ret' = r.ret
    /\ vset_pc' = "done"
    /\ UNCHANGED << vset_req, vset_e >>

VsetNext == VsetStore \/ VsetVlan4k \/ VsetVlanmc

\* The caller wanted a value beyond a field's range
VsetOutOfRange ==
    \/ vset_req.e.fid > RTL8365MB_FIDMAX
    \/ vset_req.e.priority > RTL8365MB_PRIORITYMAX
    \/ vset_req.e.meteridx > RTL8365MB_METERMAX
    \/ vset_req.setter = "vlanmc" /\ vset_req.index >= RTL8365MB_NUM_MEMBERCONFIGS

----------------------------------------------------------------------------
\* The forwarding-database handlers of the switch: l2_lock around the
\* table operations, each of which takes the register-map lock itself

VARIABLES l2_lock, l2_map_lock, port_thr

portVars == << l2_lock, l2_map_lock, port_thr >>

PortCallers == {1, 2}

\* The handlers that take mb->l2_lock
L2Handlers == {"fdb_add", "fdb_del", "mdb_add", "mdb_del", "fast_age"}

\* rtl8365mb_port_stp_state_set() uses the locked register map and no l2_lock
PortHandlers == L2Handlers \cup {"stp_state_set"}

\* What one table operation returns to the handler
TableResults == {"OK", "ENOENT", "EIO", "ETIMEDOUT"}

PortIdleThread ==
    [pc |-> "idle", kind |-> "none", stage |-> "none", new_entry |-> FALSE,
     last |-> FALSE, polls |-> 0, res |-> "none", ret |-> "none"]

PortIdle ==
    /\ l2_lock = 0
    /\ l2_map_lock = 0
    /\ port_thr = [t \in PortCallers |-> PortIdleThread]

PortInit == PortIdle

\* The first table operation of a handler
PortFirstStage(kind) ==
    CASE kind = "fdb_add" -> "chk"
      [] kind = "fdb_del" -> "dchk"
      [] kind = "mdb_add" -> "get"
      [] kind = "mdb_del" -> "get"
      [] kind = "fast_age" -> "flush"
      [] OTHER -> "update"

\* The handler leaves its table operations with a return value
PortExit(th, ret) ==
    [PortIdleThread EXCEPT
        !.pc = IF th.kind \in L2Handlers THEN "l2_unlock" ELSE "done",
        !.kind = th.kind, !.ret = ret]

\* The handler goes on to its next table operation
PortGoOn(th, stage) ==
    [th EXCEPT !.pc = "map_lock", !.stage = stage, !.polls = 0, !.res = "none"]

\* A handler that returns an error of the first look-up with l2_lock held
PortAfterOp_leaks(th) ==
    IF th.stage = "get" /\ th.res # "OK"
           /\ ~(th.kind = "mdb_add" /\ th.res = "ENOENT")
    THEN [PortIdleThread EXCEPT !.pc = "done", !.kind = th.kind,
                                !.ret = th.res]
    ELSE IF th.res = "OK" /\ th.stage \in {"get", "chk", "dchk"}
    THEN PortGoOn(th, IF th.stage = "dchk" THEN "dwr" ELSE "wr")
    ELSE PortExit(th, th.res)

\* What the handler does with the result of a table operation:
\* rtl8365mb_l2_add_uc and _add_mc (chk, wr, rb), rtl8365mb_l2_del_uc and
\* _del_mc (dchk, dwr), rtl8365mb_l2_get_mc (get), rtl8365mb_l2_flush
PortAfterOp(th) ==
    LET res == th.res
    IN  CASE th.stage = "get" ->
               IF th.kind = "mdb_add"
               THEN IF res = "OK" \/ res = "ENOENT"
                    THEN PortGoOn(th, "chk")
                    ELSE PortExit(th, res)
               ELSE IF res # "OK"
                    THEN PortExit(th, res)
                    ELSE IF th.last THEN PortGoOn(th, "dchk")
                                    ELSE PortGoOn(th, "chk")
          [] th.stage = "chk" ->
               IF res = "ENOENT"
               THEN PortGoOn([th EXCEPT !.new_entry = TRUE], "wr")
               ELSE IF res # "OK" THEN PortExit(th, res)
                                  ELSE PortGoOn(th, "wr")
          [] th.stage = "wr" ->
               IF res # "OK" THEN PortExit(th, res)
               ELSE IF th.new_entry THEN PortGoOn(th, "rb")
                                    ELSE PortExit(th, "OK")
          [] th.stage = "rb" ->
               IF res = "ENOENT" THEN PortExit(th, "ENOSPC")
                                 ELSE PortExit(th, res)
          [] th.stage = "dchk" ->
               IF res # "OK" THEN PortExit(th, res)
                             ELSE PortGoOn(th, "dwr")
          [] th.stage = "dwr" -> PortExit(th, res)
          [] th.stage = "flush" -> PortExit(th, res)
          [] OTHER -> PortExit(th, res)

\* A handler is called; for mdb_del the call fixes whether the port is the
\* last member of the group
PortCall(t) ==
    /\ port_thr[t].pc = "idle"
    /\ \E kind \in PortHandlers, last \in BOOLEAN :
          /\ last => kind = "mdb_del"
          /\ port_thr' = [port_thr EXCEPT ![t] =
                 [PortIdleThread EXCEPT
                     !.pc = IF kind \in L2Handlers THEN "l2_lock" ELSE "map_lock",
                     !.kind = kind, !.last = last,
                     !.stage = PortFirstStage(kind)]]
    /\ UNCHANGED << l2_lock, l2_map_lock >>

\* mutex_lock(&mb->l2_lock)
PortL2Lock(t) ==
    /\ port_thr[t].pc = "l2_lock"
    /\ MutexFree(l2_lock)
    /\ l2_lock' = t
    /\ port_thr' = [port_thr EXCEPT ![t].pc = "map_lock"]
    /\ UNCHANGED l2_map_lock

\* mutex_lock(&priv->map_lock) in rtl8365mb_table_query, rtl8365mb_l2_flush
\* and the locked register map
PortMapLock(t) ==
    /\ port_thr[t].pc = "map_lock"
    /\ MutexFree(l2_map_lock)
    /\ l2_map_lock' = t
    /\ port_thr' = [port_thr EXCEPT ![t].pc = "regs"]
    /\ UNCHANGED l2_lock

\* The register operations under the register-map lock: the busy poll reads
\* again, or times out, or the operation ends with a result
PortRegStep(t) ==
    LET th == port_thr[t]
    IN  /\ th.pc = "regs"
        /\ \/ /\ th.stage # "update"
              /\ IF PollTimedOut(th.polls + 1)
                 THEN port_thr' = [port_thr EXCEPT ![t].pc = "map_unlock",
                                                   ![t].polls = 0,
                                                   ![t].res = "ETIMEDOUT"]
                 ELSE port_thr' = [port_thr EXCEPT ![t].polls = th.polls + 1]
           \/ \E res \in TableResults \ {"ETIMEDOUT"} :
                 /\ res = "ENOENT" => th.stage \notin {"flush", "update"}
                 /\ port_thr' = [port_thr EXCEPT ![t].pc = "map_unlock",
                                                 ![t].polls = 0,
                                                 ![t].res = res]
        /\ UNCHANGED << l2_lock, l2_map_lock >>

\* mutex_unlock(&priv->map_lock), and the handler's use of the result
PortMapUnlock(t) ==
    /\ port_thr[t].pc = "map_unlock"
    /\ l2_map_lock' = 0
    /\ port_thr' = [port_thr EXCEPT ![t] = PortAfterOp(port_thr[t])]
    /\ UNCHANGED l2_lock

\* mutex_unlock(&mb->l2_lock)
PortL2Unlock(t) ==
    /\ port_thr[t].pc = "l2_unlock"
    /\ l2_lock' = 0
    /\ port_thr' = [port_thr EXCEPT ![t].pc = "done"]
    /\ UNCHANGED l2_map_lock

\* The handler has returned; its thread may call again
PortReturn(t) ==
    /\ port_thr[t].pc = "done"
    /\ port_thr' = [port_thr EXCEPT ![t] = PortIdleThread]
    /\ UNCHANGED << l2_lock, l2_map_lock >>

\* The steps a called handler takes without waiting
PortRun(t) ==
    PortRegStep(t) \/ PortMapUnlock(t) \/ PortL2Unlock(t) \/ PortReturn(t)

PortNext ==
    \E t \in PortCallers :
        PortCall(t) \/ PortL2Lock(t) \/ PortMapLock(t) \/ PortRun(t)

\* A called handler that is not waiting for a held lock
PortCanStep(t) ==
    \/ port_thr[t].pc \in {"regs", "map_unlock", "l2_unlock"}
    \/ port_thr[t].pc = "l2_lock" /\ MutexFree(l2_lock)
    \/ port_thr[t].pc = "map_lock" /\ MutexFree(l2_map_lock)

\* The order of the two locks, and no state in which every called handler
\* waits
PortLockOrder ==
    /\ \A t \in PortCallers :
          LET th == port_thr[t]
          IN  /\ th.pc = "l2_lock" => l2_lock # t /\ l2_map_lock # t
              /\ l2_map_lock = t => th.pc \in {"regs", "map_unlock"}
              /\ (l2_map_lock = t /\ th.kind \in L2Handlers) => l2_lock = t
              /\ l2_lock = t
                 => /\ th.kind \in L2Handlers
                    /\ th.pc \in {"map_lock", "regs", "map_unlock", "l2_unlock"}
              /\ th.pc \in {"idle", "done"} => l2_lock # t /\ l2_map_lock # t
    /\ (\E t \in PortCallers : port_thr[t].pc \notin {"idle", "done"})
       => \E t \in PortCallers : PortCanStep(t)

\* C18: l2_lock is taken before the register-map lock and never while the
\* register-map lock is held; a handler that holds the register-map lock on
\* behalf of a table operation holds l2_lock, a handler that has returned
\* holds neither; the handlers never all wait for each other, and every
\* called fdb_add, fdb_del, mdb_add, mdb_del and fast_age returns, the busy
\* polls being bounded.
C18_LockOrderAndProgress ==
    /\ []PortLockOrder
    /\ \A t \in PortCallers :
          (port_thr[t].pc = "l2_lock") ~> (port_thr[t].pc = "done")

\* mdb_del has found the group, found no room to write it back and returned
\* -ENOSPC, while a fast_age holds both locks and polls the flush
C18_Witness ==
    \E t \in PortCallers, u \in PortCallers :
        /\ port_thr[t].pc = "done" /\ port_thr[t].kind = "mdb_del"
        /\ port_thr[t].ret = "ENOSPC"
        /\ port_thr[u].pc = "regs" /\ port_thr[u].kind = "fast_age"
        /\ port_thr[u].polls = 1
        /\ l2_lock = u /\ l2_map_lock = u

\* The same call made by key with input address 0, run on the chip the call
\* started on with no transport error
SoloWriteByKey ==
    TqRun(TqCall(solo_q0.table, solo_q0.op, RTL8365MB_TABLE_L2_METHOD_MAC, 0,
                 solo_q0.port, solo_q0.data),
          SoloTables(ChipReset(chip.lat, "wrap"))).q

\* C24: a write to the forwarding database ignores the look-up method and
\* the input address of the query: a write that met no transport error has
\* issued the command word and the register operations of the same write
\* made with method MAC and address 0, and on success its address is the
\* address of the written entry.
C24_WriteIgnoresMethodAndAddress ==
    (/\ solo_q0.table = RTL8365MB_TABLE_L2
     /\ solo_q0.op = RTL8365MB_TABLE_OP_WRITE
     /\ solo_q.pc = "done" /\ solo_q.ret \in {"OK", "ENOENT"})
    => /\ solo_q.cmd = SoloWriteByKey.cmd
       /\ solo_q.log = SoloWriteByKey.log
       /\ solo_q.ret = "OK" => solo_q.addr = SoloWriteByKey.addr

(***************************************************************************)
(* The allocator of VLAN membership config entries (rtl8365mb_vlan.c).     *)
(*   vmc_used   bool used[RTL8365MB_NUM_MEMBERCONFIGS] of the database     *)
(*   vmc_live   for every index, the number of entries allocated and not   *)
(*              yet freed that hold it                                     *)
(*   vmc_last   the last call: its kind, its result, the index of its      *)
(*              entry and the used array before it                         *)
(*   vmc_frees  the number of entries freed so far                         *)
(***************************************************************************)
VARIABLES vmc_used, vmc_live, vmc_last, vmc_frees

vmcVars == << vmc_used, vmc_live, vmc_last, vmc_frees >>

\* Frees in one run
MaxFrees == 2

VmcIndices == 0..(RTL8365MB_NUM_MEMBERCONFIGS - 1)

\* The loop over the indices: the first index at or after i that is not in
\* use, or RTL8365MB_NUM_MEMBERCONFIGS when the loop ends with found false
RECURSIVE VmcScan(_, _)
VmcScan(used, i) ==
    IF i >= RTL8365MB_NUM_MEMBERCONFIGS THEN i
    ELSE IF ~used[i] THEN i
    ELSE VmcScan(used, i + 1)

\* An allocator that leaves the index it hands out unmarked
vlan_alloc_vlanmc_entry_unmarked(used, nomem) ==
    With(VmcScan(used, 0), LAMBDA i :
        IF i >= RTL8365MB_NUM_MEMBERCONFIGS
        THEN [ret |-> "ENOSPC", index |-> -1, used |-> used]
        ELSE IF nomem THEN [ret |-> "ENOMEM", index |-> -1, used |-> used]
        ELSE [ret |-> "OK", index |-> i, used |-> used])

\* rtl8365mb_vlan_alloc_vlanmc_entry(vlanmc_db); nomem is a kzalloc() that
\* returns NULL
rtl8365mb_vlan_alloc_vlanmc_entry(used, nomem) ==
    With(VmcScan(used, 0), LAMBDA i :
        IF i >= RTL8365MB_NUM_MEMBERCONFIGS
        THEN [ret |-> "ENOSPC", index |-> -1, used |-> used]
        ELSE IF nomem THEN [ret |-> "ENOMEM", index |-> -1, used |-> used]
        ELSE [ret |-> "OK", index |-> i, used |-> [used EXCEPT ![i] = TRUE]])

\* rtl8365mb_vlan_free_vlanmc_entry(vlanmc_entry) for an entry with the
\* given index
rtl8365mb_vlan_free_vlanmc_entry(used, index) == [used EXCEPT ![index] = FALSE]

VmcIdle ==
    /\ vmc_used = [i \in VmcIndices |-> FALSE]
    /\ vmc_live = [i \in VmcIndices |-> 0]
    /\ vmc_last = [op |-> "none", ret |-> "none", index |-> -1, before |-> vmc_used]
    /\ vmc_frees = 0

\* The database as rtl8365mb_vlan_setup() finds it: zeroed with chip_data
VmcInit == VmcIdle

VmcAlloc ==
    \E nomem \in BOOLEAN :
    \E r \in {rtl8365mb_vlan_alloc_vlanmc_entry(vmc_used, nomem)} :
        /\ vmc_used' = r.used
        /\ vmc_live' = IF r.ret = "OK"
                       THEN [vmc_live EXCEPT ![r.index] = @ + 1] ELSE vmc_live
        /\ vmc_last' = [op |-> "alloc", ret |-> r.ret, index |-> r.index,
                        before |-> vmc_used]
        /\ UNCHANGED vmc_frees

\* A caller frees an entry it holds
VmcFree ==
    /\ vmc_frees < MaxFrees
    /\ \E i \in VmcIndices :
          /\ vmc_live[i] > 0
          /\ vmc_used' = rtl8365mb_vlan_free_vlanmc_entry(vmc_used, i)
          /\ vmc_live' = [vmc_live EXCEPT ![i] = @ - 1]
          /\ vmc_last' = [op |-> "free", ret |-> "OK", index |-> i,
                          before |-> vmc_used]
    /\ vmc_frees' = vmc_frees + 1

VmcNext == VmcAlloc \/ VmcFree

\* C26: after any sequence of alloc and free calls no two live entries hold
\* the same index, every index of a live entry is in 0..31 and used[i] is
\* true exactly for the indices of live entries; alloc returns -ENOSPC
\* exactly when all 32 indices were in use, otherwise it hands out an index
\* that was not in use (or fails for want of memory, reserving nothing);
\* the index of a freed entry is not in use and the next successful alloc
\* can hand it out again.
C26_AllocatorReserves ==
    /\ \A i \in VmcIndices : vmc_live[i] <= 1 /\ (vmc_used[i] <=> vmc_live[i] = 1)
    /\ DOMAIN vmc_live = 0..31
    /\ vmc_last.op = "alloc"
       => /\ vmc_last.ret = "ENOSPC" <=> (\A i \in 0..31 : vmc_last.before[i])
          /\ vmc_last.ret = "OK"
             => /\ vmc_last.index \in 0..31
                /\ ~vmc_last.before[vmc_last.index]
                /\ \A i \in 0..31 : i < vmc_last.index => vmc_last.before[i]
                /\ vmc_used = [vmc_last.before EXCEPT ![vmc_last.index] = TRUE]
          /\ vmc_last.ret # "OK" => vmc_used = vmc_last.before
    /\ vmc_last.op = "free"
       => /\ ~vmc_used[vmc_last.index]
          /\ vmc_used = [vmc_last.before EXCEPT ![vmc_last.index] = FALSE]
          /\ rtl8365mb_vlan_alloc_vlanmc_entry(vmc_used, FALSE).ret = "OK"
          /\ rtl8365mb_vlan_alloc_vlanmc_entry(vmc_used, FALSE).index <= vmc_last.index

\* With all 32 indices in use, index 7 was freed and the next alloc has
\* handed out index 7 again: the database is full once more
C26_Witness ==
    /\ vmc_last.op = "alloc" /\ vmc_last.ret = "OK" /\ vmc_last.index = 7
    /\ \A i \in 0..31 : vmc_used[i]
    /\ vmc_frees > 0

\* An alloc on the full database has returned -ENOSPC
C26_Full ==
    /\ vmc_last.op = "alloc" /\ vmc_last.ret = "ENOSPC"
    /\ \A i \in 0..31 : vmc_used[i]

\* The register writes of a write query up to the command, as register and
\* value: the entry words, the address when withAddr, the command word
SoloWritePlan(withAddr) ==
    [i \in 1..TqSize(solo_q0) |->
        << RTL8365MB_TABLE_WRITE_BASE + (i - 1), solo_q0.data[i - 1] >>]
    \o (IF withAddr THEN << << RTL8365MB_TABLE_ADDR_REG, solo_q0.addr % 8192 >> >>
        ELSE << >>)
    \o << << RTL8365MB_TABLE_CTRL_REG, solo_q0.table + 8 * solo_q0.op >> >>

\* The register operations of a write query follow the plan: its writes in
\* order, then nothing but reads of the status register; a failed operation
\* is the last one and its error is returned, so that after a failed write
\* the command is not written; a call that met no failure has written the
\* command once and has polled
SoloWriteFollows(plan) ==
    (/\ solo_q0.op = RTL8365MB_TABLE_OP_WRITE
     /\ solo_q0.table \in 1..4
     /\ TqSize(solo_q0) <= 10)
    => LET log == solo_q.log
           failed == {i \in 1..Len(log) : log[i][1] \in {"wfail", "rfail"}}
           commands == {i \in 1..Len(log) :
                           log[i][1] = "w" /\ log[i][2] = RTL8365MB_TABLE_CTRL_REG}
       IN  /\ \A i \in 1..Len(log) :
                 IF i <= Len(plan)
                 THEN /\ log[i][1] \in {"w", "wfail"}
                      /\ log[i][2] = plan[i][1] /\ log[i][3] = plan[i][2]
                 ELSE /\ log[i][1] \in {"r", "rfail"}
                      /\ log[i][2] = RTL8365MB_TABLE_STATUS_REG
           /\ \A i \in failed :
                 i = Len(log) /\ solo_q.ret = "EIO" /\ solo_q.pc \in {"unlock", "done"}
           /\ commands \subseteq {Len(plan)}
           /\ (solo_q.pc = "done" /\ failed = {})
              => commands = {Len(plan)} /\ Len(log) > Len(plan)

C27_WitnessFailure ==
    /\ solo_q.pc = "done" /\ solo_q.ret = "EIO"
    /\ solo_q0.table = RTL8365MB_TABLE_ACL_ACTION
    /\ solo_q0.op = RTL8365MB_TABLE_OP_WRITE
    /\ Len(solo_q.log) = 3 /\ solo_q.log[3][1] = "wfail"

\* The register writes of a read query up to the command: the key words of
\* a look-up by MAC in the forwarding database, the address for every other
\* read, then the command word with the method and, for the look-up by
\* source port, the port
SoloReadPlan ==
    LET l2 == solo_q0.table = RTL8365MB_TABLE_L2
        bykey == l2 /\ solo_q0.method = RTL8365MB_TABLE_L2_METHOD_MAC
        byport == l2 /\ solo_q0.method = RTL8365MB_TABLE_L2_METHOD_ADDR_NEXT_UC_PORT
        cmd == solo_q0.table + (IF l2 THEN 16 * solo_q0.method ELSE 0)
                   + (IF byport THEN 256 * solo_q0.port ELSE 0)
    IN  (IF bykey
         THEN [i \in 1..TqSize(solo_q0) |->
                  << RTL8365MB_TABLE_WRITE_BASE + (i - 1), solo_q0.data[i - 1] >>]
         ELSE << << RTL8365MB_TABLE_ADDR_REG, solo_q0.addr % 8192 >> >>)
        \o << << RTL8365MB_TABLE_CTRL_REG, cmd >> >>

\* C28: a read of the forwarding database by key (method MAC) writes the
\* key words to the write window and issues the command without a write of
\* the address register; every other read (of another table, or of the
\* forwarding database by address or next address) writes the address
\* register once and issues the command without a write to the write
\* window.
C28_ReadKeyOrAddress ==
    (/\ solo_q0.op = RTL8365MB_TABLE_OP_READ
     /\ solo_q0.table \in 1..4
     /\ TqSize(solo_q0) <= 10)
    => LET log == solo_q.log
           plan == SoloReadPlan
           bykey == /\ solo_q0.table = RTL8365MB_TABLE_L2
                    /\ solo_q0.method = RTL8365MB_TABLE_L2_METHOD_MAC
           window == {i \in 1..Len(log) :
                         log[i][2] \in {RTL8365MB_TABLE_WRITE_BASE + k : k \in 0..9}}
           address == {i \in 1..Len(log) : log[i][2] = RTL8365MB_TABLE_ADDR_REG}
           commanded == \E i \in 1..Len(log) :
                           log[i] = << "w", RTL8365MB_TABLE_CTRL_REG, plan[Len(plan)][2] >>
       IN  /\ \A i \in 1..Len(log) :
                 IF i <= Len(plan)
                 THEN /\ log[i][1] \in {"w", "wfail"}
                      /\ log[i][2] = plan[i][1] /\ log[i][3] = plan[i][2]
                 ELSE log[i][1] \in {"r", "rfail"}
           /\ IF bykey
              THEN /\ address = {}
                   /\ commanded => window = 1..TqSize(solo_q0)
              ELSE /\ window = {}
                   /\ address \subseteq {1}
                   /\ commanded => address = {1} /\ log[1][1] = "w"
           /\ (solo_q.pc = "done" /\ solo_q.ret \in {"OK", "ENOENT", "ETIMEDOUT"})
              => commanded

\* A look-up by MAC has found the stored entry: six key words were written,
\* then the command
C28_Witness ==
    /\ solo_q.pc = "done" /\ solo_q.ret = "OK"
    /\ solo_q0.table = RTL8365MB_TABLE_L2 /\ solo_q0.op = RTL8365MB_TABLE_OP_READ
    /\ solo_q0.method = RTL8365MB_TABLE_L2_METHOD_MAC
    /\ TqSize(solo_q0) = 6
    /\ solo_q.log[6] = << "w", RTL8365MB_TABLE_WRITE_BASE + 5, solo_q0.data[5] >>
    /\ solo_q.log[7] = << "w", RTL8365MB_TABLE_CTRL_REG, 4 >>

\* A read of the forwarding database by next address from address 2 has
\* written the address, then the command
C28_WitnessByAddress ==
    /\ solo_q.pc = "done" /\ solo_q.ret = "OK"
    /\ solo_q0.table = RTL8365MB_TABLE_L2 /\ solo_q0.op = RTL8365MB_TABLE_OP_READ
    /\ solo_q0.method = RTL8365MB_TABLE_L2_METHOD_ADDR_NEXT /\ solo_q0.addr = 2
    /\ solo_q.log[1] = << "w", RTL8365MB_TABLE_ADDR_REG, 2 >>
    /\ solo_q.log[2] = << "w", RTL8365MB_TABLE_CTRL_REG, 36 >>

\* The reads of the read window that the call has made, in order
SoloWindowReads ==
    SelectSeq(solo_q.log,
              LAMBDA e : e[1] = "r" /\ e[2] \in {RTL8365MB_TABLE_READ_BASE + k : k \in 0..9})

\* C30: a read query that succeeded has read the read-window registers
\* 0..size-1 in order; it returns words 0..8 as read, and of word 9, which
\* only a ten-word entry has, the lowest nibble, a value of at most 0xF.
C30_LastWordNibble ==
    (/\ solo_q0.op = RTL8365MB_TABLE_OP_READ
     /\ solo_q.pc = "done" /\ solo_q.ret = "OK")
    => /\ Len(SoloWindowReads) = TqSize(solo_q0)
       /\ DOMAIN solo_q.data = DOMAIN solo_q0.data
       /\ \A i \in DOMAIN solo_q.data :
             /\ SoloWindowReads[i + 1][2] = RTL8365MB_TABLE_READ_BASE + i
             /\ solo_q.data[i] = IF i = 9 THEN SoloWindowReads[i + 1][3] % 16
                                 ELSE SoloWindowReads[i + 1][3]
             /\ i = 9 => solo_q.data[i] <= 15

\* A ten-word read of ACL rule row 0, whose words are all 0xFFFF, has
\* returned 0xFFFF in words 0..8 and 0xF in word 9
C30_Witness ==
    /\ solo_q.pc = "done" /\ solo_q.ret = "OK"
    /\ solo_q0.op = RTL8365MB_TABLE_OP_READ
    /\ solo_q0.table = RTL8365MB_TABLE_ACL_RULE /\ solo_q0.addr = 0
    /\ TqSize(solo_q0) = 10
    /\ SoloWindowReads[10] = << "r", RTL8365MB_TABLE_READ_BASE + 9, 65535 >>
    /\ solo_q.data = [i \in 0..9 |-> IF i = 9 THEN 15 ELSE 65535]

\* A three-word read of the same row has returned three words of 0xFFFF
C30_WitnessShort ==
    /\ solo_q.pc = "done" /\ solo_q.ret = "OK"
    /\ solo_q0.op = RTL8365MB_TABLE_OP_READ
    /\ solo_q0.table = RTL8365MB_TABLE_ACL_RULE /\ solo_q0.addr = 0
    /\ solo_q.data = [i \in 0..2 |-> 65535]

(***************************************************************************)
(* The status check of a forwarding database query on every value the      *)
(* 16-bit status register can hold (rtl8365mb_table.c).                    *)
(*   st_val   the value read from RTL8365MB_TABLE_STATUS_REG               *)
(*   st_q     the call before the check, at the read of the status         *)
(*   st_out   the call after the check; st_q until the check has run       *)
(*   st_pc    "in" before the check, "out" after it                        *)
(***************************************************************************)
VARIABLES st_val, st_q, st_out, st_pc

stVars == << st_val, st_q, st_out, st_pc >>

\* A read by next address and a write of an empty buffer, with every bit of
\* the input address set, polled once
StatusCalls ==
    {[TqCall(RTL8365MB_TABLE_L2, op, RTL8365MB_TABLE_L2_METHOD_ADDR_NEXT,
             RTL8365MB_TABLE_ADDR_MASK, 0, Empty)
         EXCEPT !.pc = "status", !.polls = 1] :
        op \in {RTL8365MB_TABLE_OP_READ, RTL8365MB_TABLE_OP_WRITE}}

StatusIdle ==
    /\ st_val = 0 /\ st_pc = "idle"
    /\ st_q = TqCall(0, 0, 0, 0, 0, Empty)
    /\ st_out = st_q

StatusInit ==
    /\ st_val \in 0..65535
    /\ st_q \in StatusCalls
    /\ st_out = st_q
    /\ st_pc = "in"

\* hit = FIELD_GET(...); if (!hit) ... ; *addr = ...
StatusCheck ==
    /\ st_pc = "in"
    /\ st_out' = TqAfterStatus(st_q, st_val)
    /\ st_pc' = "out"
    /\ UNCHANGED << st_val, st_q >>

StatusNext == StatusCheck

\* C29: for every 16-bit status value with the hit bit (bit 12) set, the
\* address the query returns is status[10:0] + 2^11 * (bit 14) + 2^12 *
\* (bit 11): it is below 2^13 and neither the busy bit (13) nor the hit bit
\* changes it.
C29_HitAddress ==
    (st_pc = "out" /\ BitOf(st_val, 12) = 1)
    => /\ st_out.ret # "ENOENT"
       /\ st_out.addr = (st_val % 2048) + 2048 * BitOf(st_val, 14)
                           + 4096 * BitOf(st_val, 11)
       /\ st_out.addr < 8192
       /\ st_out.addr = TqAfterStatus(st_q, st_val + (1 - BitOf(st_val, 13)) * 8192).addr

\* The status 0xFFFF gives address 0x1FFF, the status 0x5001 (hit,
\* extension, address 1) gives 0x0801
C29_Witness ==
    /\ st_pc = "out" /\ st_val = 65535 /\ st_out.addr = 8191
    /\ st_q.op = RTL8365MB_TABLE_OP_WRITE /\ st_out.ret = "OK"
    /\ TqAfterStatus(st_q, 20481).addr = 2049

\* C38: a query changes what it is meant to return and nothing else: the
\* table, operation, method and port of the query stay; for the ACL rule,
\* ACL action and VLAN tables the address stays and NotFound is never the
\* result; the entry buffer of a write query stays; and the entry buffer of
\* a read query stays until the first successful read of the read window,
\* so that every error before the read phase leaves it as the caller
\* passed it
C38_QueryFrame ==
    /\ solo_q.table = solo_q0.table /\ solo_q.op = solo_q0.op
    /\ solo_q.method = solo_q0.method /\ solo_q.port = solo_q0.port
    /\ solo_q0.table # RTL8365MB_TABLE_L2
          => solo_q.addr = solo_q0.addr /\ solo_q.ret # "ENOENT"
    /\ solo_q0.op = RTL8365MB_TABLE_OP_WRITE => solo_q.data = solo_q0.data
    /\ SoloWindowReads = << >> => solo_q.data = solo_q0.data

\* A read of the VLAN table has returned the entry at its address, with the
\* address as the caller passed it
C38_Witness ==
    /\ solo_q0.table = RTL8365MB_TABLE_CVLAN
    /\ solo_q0.op = RTL8365MB_TABLE_OP_READ /\ solo_q0.addr = 2
    /\ solo_q.pc = "done" /\ solo_q.ret = "OK"
    /\ solo_q.data # solo_q0.data /\ solo_q.addr = 2

\* A look-up in the forwarding database has failed at the read of the
\* status register, its key buffer as the caller passed it
C38_WitnessError ==
    /\ solo_q0.table = RTL8365MB_TABLE_L2
    /\ solo_q0.op = RTL8365MB_TABLE_OP_READ
    /\ solo_q.pc = "done" /\ solo_q.ret = "EIO"
    /\ Len(solo_q.log) > 0
    /\ solo_q.log[Len(solo_q.log)] = << "rfail", RTL8365MB_TABLE_STATUS_REG, 0 >>
    /\ solo_q.data = solo_q0.data /\ TqSize(solo_q0) = 6

(***************************************************************************)
(* Adding and deleting forwarding database entries: rtl8365mb_l2_add_uc,   *)
(* rtl8365mb_l2_add_mc, rtl8365mb_l2_del_uc and rtl8365mb_l2_del_mc, each  *)
(* a sequence of table queries by key on the chip.                         *)
(*   lo_call   the function called ("add_uc", "add_mc", "del_uc",          *)
(*             "del_mc") and its entry or key argument                     *)
(*   lo_pc     the query the call makes next: "chk" (look-up), "wr"        *)
(*             (write), "rb" (read-back), or "done" once it returned       *)
(*   lo_new    the local new_entry                                         *)
(*   lo_data   the local u16 data[6]                                       *)
(*   lo_ret    the value returned, "none" before                           *)
(*   lo_log    the table queries issued: operation, entry words handed in, *)
(*             result                                                      *)
(*   lo_tbl0   the forwarding database when the call started               *)
(***************************************************************************)
VARIABLES lo_call, lo_pc, lo_new, lo_data, lo_ret, lo_log, lo_tbl0
loVars == << lo_call, lo_pc, lo_new, lo_data, lo_ret, lo_log, lo_tbl0 >>

\* A table query whose n-th register operation fails; none fails when n = 0
RECURSIVE TqRunFailing(_, _, _)
TqRunFailing(q, c, n) ==
    IF q.pc = "done" THEN [q |-> q, chip |-> c]
    ELSE With(TqStep(q, c, TqIsRegStep(q) /\ n = 1),
              LAMBDA r : TqRunFailing(r.q, r.chip,
                             IF TqIsRegStep(q) /\ n > 0 THEN n - 1 ELSE n))

\* The register operations of a query that may fail: none, the first key
\* word, the command, the busy poll, the status read, the first window read
LoFailPoints == {0, 1, 7, 8, 9, 10}

LoIsUc(kind) == kind \in {"add_uc", "del_uc"}
LoIsAdd(kind) == kind \in {"add_uc", "add_mc"}

\* rtl8365mb_l2_uc_to_data() or rtl8365mb_l2_mc_to_data() by function
LoPack(kind, e) ==
    IF LoIsUc(kind) THEN rtl8365mb_l2_uc_to_data(e) ELSE rtl8365mb_l2_mc_to_data(e)

\* The entry the delete functions build: all zero, then the key
LoKeyOnly(kind, key) ==
    IF LoIsUc(kind)
    THEN UcEntry(key.mac_addr, key.vid, key.ivl, key.fid, key.efid, 0, 0, 0, {})
    ELSE McEntry(key.mac_addr, key.vid, key.ivl, 0, FALSE, FALSE, 0, 0, FALSE)

\* The entry the functions pack before each query
LoEntry(call) ==
    IF LoIsAdd(call.kind) THEN call.e ELSE LoKeyOnly(call.kind, call.e.key)

\* An add function that takes a read-back miss for success
LoAfterQuery_readback_ignored(kind, pc, new, ret) ==
    LET return(r) == [pc |-> "done", new |-> new, ret |-> r]
    IN  IF pc = "chk" /\ LoIsAdd(kind)
        THEN IF ret = "ENOENT" THEN [pc |-> "wr", new |-> TRUE, ret |-> "none"]
             ELSE IF ret # "OK" THEN return(ret)
             ELSE [pc |-> "wr", new |-> new, ret |-> "none"]
        ELSE IF pc = "chk"
        THEN IF ret # "OK" THEN return(ret)
             ELSE [pc |-> "wr", new |-> new, ret |-> "none"]
        ELSE IF pc = "wr" /\ LoIsAdd(kind)
        THEN IF ret # "OK" THEN return(ret)
             ELSE IF new THEN [pc |-> "rb", new |-> new, ret |-> "none"]
             ELSE return("OK")
        ELSE IF pc = "wr"
        THEN return(ret)
        ELSE IF ret = "ENOENT" THEN return("OK")
             ELSE return(ret)

\* A delete function that writes whatever the look-up returned
LoAfterQuery_delete_unchecked(kind, pc, new, ret) ==
    LET return(r) == [pc |-> "done", new |-> new, ret |-> r]
    IN  IF pc = "chk" /\ LoIsAdd(kind)
        THEN IF ret = "ENOENT" THEN [pc |-> "wr", new |-> TRUE, ret |-> "none"]
             ELSE IF ret # "OK" THEN return(ret)
             ELSE [pc |-> "wr", new |-> new, ret |-> "none"]
        ELSE IF pc = "chk"
        THEN [pc |-> "wr", new |-> new, ret |-> "none"]
        ELSE IF pc = "wr" /\ LoIsAdd(kind)
        THEN IF ret # "OK" THEN return(ret)
             ELSE IF new THEN [pc |-> "rb", new |-> new, ret |-> "none"]
             ELSE return("OK")
        ELSE IF pc = "wr"
        THEN return(ret)
        ELSE IF ret = "ENOENT" THEN return("ENOSPC")
             ELSE return(ret)

\* What a function does with the result of the query it made at pc: the
\* next query, or the value it returns
LoAfterQuery(kind, pc, new, ret) ==
    LET return(r) == [pc |-> "done", new |-> new, ret |-> r]
    IN  IF pc = "chk" /\ LoIsAdd(kind)
        THEN IF ret = "ENOENT" THEN [pc |-> "wr", new |-> TRUE, ret |-> "none"]
             ELSE IF ret # "OK" THEN return(ret)
             ELSE [pc |-> "wr", new |-> new, ret |-> "none"]
        ELSE IF pc = "chk"
        THEN IF ret # "OK" THEN return(ret)
             ELSE [pc |-> "wr", new |-> new, ret |-> "none"]
        ELSE IF pc = "wr" /\ LoIsAdd(kind)
        THEN IF ret # "OK" THEN return(ret)
             ELSE IF new THEN [pc |-> "rb", new |-> new, ret |-> "none"]
             ELSE return("OK")
        ELSE IF pc = "wr"
        THEN return(ret)
        ELSE IF ret = "ENOENT" THEN return("ENOSPC")
             ELSE return(ret)

\* The operation of the query made at pc
LoOp(pc) ==
    IF pc = "wr" THEN RTL8365MB_TABLE_OP_WRITE ELSE RTL8365MB_TABLE_OP_READ

\* The words handed to the query made at pc: the look-up and the write pack
\* the entry first, the read-back passes the words of the write
LoWords(call, pc, data) ==
    IF pc = "rb" THEN data ELSE LoPack(call.kind, LoEntry(call))

\* Entries for the calls: one that updates a stored unicast entry, one that
\* is not stored, and the same for multicast
LoEntryA2 == [L2EntryA EXCEPT !.port = 5, !.is_static = TRUE]
LoGroupEntry2 == [L2GroupEntry EXCEPT !.member = 3]
LoGroupAbsent == McEntry(<< 1, 0, 94, 9, 9, 9 >>, 10, TRUE, 0, FALSE, TRUE, 5, 0, FALSE)

LoCalls ==
    {[kind |-> k, e |-> e] : k \in {"add_uc", "del_uc"}, e \in {LoEntryA2, L2EntryC}}
    \cup {[kind |-> k, e |-> e] : k \in {"add_mc", "del_mc"},
                                   e \in {LoGroupEntry2, LoGroupAbsent}}

\* Forwarding databases of four slots: with free slots, with a group, full
LoTables ==
    LET A == WindowOf(rtl8365mb_l2_uc_to_data(L2EntryA))
        B == WindowOf(rtl8365mb_l2_uc_to_data(L2EntryB))
        G == WindowOf(rtl8365mb_l2_mc_to_data(L2GroupEntry))
        X == WindowOf(rtl8365mb_l2_uc_to_data(L2EntryAbsent))
    IN  {[a \in 0..3 |-> CASE a = 0 -> A [] a = 2 -> B [] OTHER -> ZeroWindow],
         [a \in 0..3 |-> CASE a = 0 -> A [] a = 1 -> G [] a = 2 -> B
                            [] OTHER -> ZeroWindow],
         [a \in 0..3 |-> CASE a = 0 -> A [] a = 1 -> G [] a = 2 -> B
                            [] OTHER -> X]}

\* The slots of a table that hold an entry with the key of the given words
LoSlots(l2, data) ==
    {a \in DOMAIN l2 : L2Occupied(l2, a) /\ L2KeyOf(l2[a]) = L2KeyOf(WindowOf(data))}

LoIdle ==
    /\ lo_call = [kind |-> "none", e |-> 0] /\ lo_pc = "idle" /\ lo_new = FALSE
    /\ lo_data = ZeroData6 /\ lo_ret = "none" /\ lo_log = << >>
    /\ lo_tbl0 = Empty

\* A call is made on a chip that answers at once or stays busy
LoInit ==
    /\ \E lat \in {0, PollBudget + 1}, t \in LoTables :
         /\ chip = [ChipReset(lat, "miss") EXCEPT !.l2 = t]
         /\ lo_tbl0 = t
    /\ lo_call \in LoCalls
    /\ lo_pc = "chk" /\ lo_new = FALSE /\ lo_data = ZeroData6
    /\ lo_ret = "none" /\ lo_log = << >>

\* One table query of the call and what the function does with its result
LoQuery ==
    /\ lo_pc \in {"chk", "wr", "rb"}
    /\ \E n \in LoFailPoints :
         \E r \in {TqRunFailing(TqCall(RTL8365MB_TABLE_L2, LoOp(lo_pc),
                                       RTL8365MB_TABLE_L2_METHOD_MAC, 0, 0,
                                       LoWords(lo_call, lo_pc, lo_data)),
                                chip, n)} :
           \E nx \in {LoAfterQuery(lo_call.kind, lo_pc, lo_new, r.q.ret)} :
             /\ chip' = r.chip
             /\ lo_data' = r.q.data
             /\ lo_log' = Append(lo_log, [op |-> LoOp(lo_pc),
                                          data |-> LoWords(lo_call, lo_pc, lo_data),
                                          ret |-> r.q.ret, fail |-> n])
             /\ lo_pc' = nx.pc /\ lo_new' = nx.new /\ lo_ret' = nx.ret
    /\ UNCHANGED << lo_call, lo_tbl0 >>

\* The chip does not keep the entry just written: between the write and the
\* read-back the slot is emptied (the hash bucket of the key had no room)
LoDiscard ==
    /\ lo_pc = "rb"
    /\ LoSlots(chip.l2, lo_data) # {}
    /\ chip' = [chip EXCEPT !.l2 = [a \in DOMAIN chip.l2 |->
                     IF a \in LoSlots(chip.l2, lo_data) THEN ZeroWindow
                     ELSE chip.l2[a]]]
    /\ UNCHANGED loVars

LoNext == LoQuery \/ LoDiscard

LoAdded == LoIsAdd(lo_call.kind) /\ Len(lo_log) >= 1

\* C31: an add whose look-up fails with an error other than NotFound issues
\* no write query and returns that error; an add of an absent key whose
\* read-back reports NotFound returns ENOSPC, and ENOSPC is returned in no
\* other case; an add that returns success leaves an entry with the key,
\* holding the words of the entry, in the table
C31_AddOutcomes ==
    LoAdded =>
      /\ lo_log[1].op = RTL8365MB_TABLE_OP_READ
      /\ lo_log[1].ret \notin {"OK", "ENOENT"}
           => /\ Len(lo_log) = 1
              /\ lo_pc = "done" /\ lo_ret = lo_log[1].ret
      /\ Len(lo_log) = 3
           => /\ lo_log[1].ret = "ENOENT" /\ lo_log[2].ret = "OK"
              /\ lo_log[3].op = RTL8365MB_TABLE_OP_READ
              /\ lo_log[3].ret = "ENOENT" => lo_ret = "ENOSPC"
      /\ lo_ret = "ENOSPC" => Len(lo_log) = 3 /\ lo_log[3].ret = "ENOENT"
      /\ lo_pc = "done" /\ lo_ret = "OK"
           => \E a \in DOMAIN chip.l2 :
                 Row6(chip.l2[a]) = LoPack(lo_call.kind, lo_call.e)

\* An add of an absent key returned ENOSPC after the read-back missed
C31_Witness ==
    /\ LoAdded /\ lo_pc = "done" /\ lo_ret = "ENOSPC"
    /\ Len(lo_log) = 3 /\ lo_log[3].ret = "ENOENT"

\* An add stopped at a look-up that failed with a transport error
C31_WitnessLookupError ==
    /\ LoAdded /\ lo_pc = "done" /\ Len(lo_log) = 1 /\ lo_ret = "EIO"

\* An add of an absent key returned success after the read-back
C31_WitnessAdded ==
    /\ LoAdded /\ lo_pc = "done" /\ lo_ret = "OK" /\ Len(lo_log) = 3
    /\ LoSlots(lo_tbl0, LoPack(lo_call.kind, lo_call.e)) = {}

LoDeleting == lo_call.kind \in {"del_uc", "del_mc"}

\* The key of the call is in no slot of the table the call started on
LoKeyAbsent == LoSlots(lo_tbl0, LoPack(lo_call.kind, LoEntry(lo_call))) = {}

\* C32: a delete of a key that is not in the forwarding database issues one
\* look-up and no write query, leaves the table as it was, and returns
\* NotFound (or the error of a look-up whose register access failed or whose
\* busy poll timed out)
C32_DeleteAbsentKey ==
    (LoDeleting /\ LoKeyAbsent) =>
      /\ chip.l2 = lo_tbl0
      /\ Len(lo_log) <= 1
      /\ \A i \in 1..Len(lo_log) : lo_log[i].op = RTL8365MB_TABLE_OP_READ
      /\ lo_pc = "done" =>
           /\ Len(lo_log) = 1 /\ lo_ret = lo_log[1].ret
           /\ lo_ret \in {"ENOENT", "EIO", "ETIMEDOUT"}
           /\ lo_ret = "EIO" => lo_log[1].fail # 0
           /\ lo_ret = "ETIMEDOUT" => chip.lat > PollBudget

\* A delete of an absent key returned NotFound
C32_Witness ==
    /\ LoDeleting /\ LoKeyAbsent /\ lo_pc = "done" /\ lo_ret = "ENOENT"
    /\ lo_log[1].fail = 0

\* The bits of the six entry words that hold no key field
LoOutsideKey(kind, d) ==
    << And(d[3], 65535 - (RTL8365MB_L2_UC_D3_VID_MASK + RTL8365MB_L2_UC_D3_IVL_MASK)),
       IF LoIsUc(kind)
       THEN And(d[4], 65535 - (RTL8365MB_L2_UC_D4_EFID_MASK + RTL8365MB_L2_UC_D4_FID_MASK))
       ELSE d[4],
       d[5] >>

\* C33: the entry a delete writes is zero in every bit outside the key
\* fields, for unicast and for multicast entries
C33_DeleteWritesKeyOnly ==
    \A i \in 1..Len(lo_log) :
       (LoDeleting /\ lo_log[i].op = RTL8365MB_TABLE_OP_WRITE)
          => LoOutsideKey(lo_call.kind, lo_log[i].data) = << 0, 0, 0 >>

\* The same for the unicast delete alone
C33_UnicastDeleteWritesKeyOnly ==
    \A i \in 1..Len(lo_log) :
       (lo_call.kind = "del_uc" /\ lo_log[i].op = RTL8365MB_TABLE_OP_WRITE)
          => LoOutsideKey(lo_call.kind, lo_log[i].data) = << 0, 0, 0 >>

\* A multicast delete wrote its entry: the static flag is set in word 5
C33_MulticastDeleteWritesStatic ==
    /\ lo_call.kind = "del_mc" /\ Len(lo_log) = 2
    /\ lo_log[2].op = RTL8365MB_TABLE_OP_WRITE
    /\ lo_log[2].data[5] = RTL8365MB_L2_MC_STATIC_MASK

(***************************************************************************)
(* The forwarding-database handlers on the chip: rtl8365mb_port_fdb_add,   *)
(* _fdb_del, _mdb_add, _mdb_del and _fast_age called by two threads, each  *)
(* once and for its own port. Every table query and every flush runs       *)
(* under the register-map lock and is one step here; the handlers take     *)
(* l2_lock around their sequence of queries.                               *)
(*   mx_lock   the owner of mb->l2_lock, 0 when free                       *)
(*   mx_thr    for every thread: the handler and its position pc, the      *)
(*             function fn of rtl8365mb_l2.c it is in, its entry e, the    *)
(*             locals new (new_entry of the add function) and data, and    *)
(*             the return value ret                                        *)
(*   mx_want   the ports whose mdb_add has succeeded, with the members the *)
(*             group had at the start                                      *)
(***************************************************************************)
VARIABLES mx_lock, mx_thr, mx_want
mxVars == << mx_lock, mx_thr, mx_want >>

MxCallers == {1, 2}

\* The port a thread's handler is called for
MxPort(t) == t + 2

MxIdleThread ==
    [pc |-> "idle", kind |-> "none", fn |-> "none", e |-> 0, new |-> FALSE,
     data |-> ZeroData6, ret |-> "none"]

\* The key of a handler: mdb_add copies the group address into key, while
\* mdb_del copies it into mc.key, which rtl8365mb_l2_get_mc then clears,
\* and leaves the address of key zero
MxGroupKey(kind) ==
    [mac_addr |-> IF kind = "mdb_add" THEN L2GroupEntry.key.mac_addr
                  ELSE << 0, 0, 0, 0, 0, 0 >>,
     vid |-> L2GroupEntry.key.vid, ivl |-> TRUE]

\* The unicast entry rtl8365mb_port_fdb_add builds
MxUcEntry(port) ==
    UcEntry(L2EntryC.key.mac_addr, L2EntryC.key.vid, TRUE, 0, 0, port, 6, 0,
            {"is_static"})

\* The whole of rtl8365mb_l2_flush on a chip whose register operations
\* succeed
RECURSIVE FlRun(_, _)
FlRun(f, c) ==
    IF f.pc = "done" THEN [f |-> f, chip |-> c]
    ELSE With(FlStep(f, c, FALSE), LAMBDA r : FlRun(r.f, r.chip))

\* The handler leaves its sequence with a return value; the locals of the
\* function it was in are gone
MxExit(th, ret) ==
    [MxIdleThread EXCEPT !.pc = "l2_unlock", !.kind = th.kind, !.ret = ret]

\* What mdb_add and mdb_del do with the result of rtl8365mb_l2_get_mc:
\* keyent is the zeroed entry with the key, got the entry the function
\* returned
MxAfterGet(th, port, ret, keyent, got) ==
    IF th.kind = "mdb_add"
    THEN IF ret \notin {"OK", "ENOENT"} THEN MxExit(th, ret)
         ELSE [th EXCEPT !.pc = "chk", !.fn = "add_mc",
                         !.e = [(IF ret = "ENOENT" THEN keyent ELSE got)
                                   EXCEPT !.member = Or(@, BIT(port))]]
    ELSE IF ret # "OK" THEN MxExit(th, ret)
         ELSE IF And(got.member, 65535 - BIT(port)) = 0
         THEN [th EXCEPT !.pc = "chk", !.fn = "del_mc", !.e = keyent]
         ELSE [th EXCEPT !.pc = "chk", !.fn = "add_mc",
                         !.e = [got EXCEPT !.member = And(@, 65535 - BIT(port))]]

\* The member mask of the group in a table, 0 when the group is not there
MxMember(l2) ==
    LET S == LoSlots(l2, rtl8365mb_l2_mc_to_data(L2GroupEntry))
    IN  IF S = {} THEN 0
        ELSE rtl8365mb_l2_data_to_mc(Row6(l2[SetMin(S)])).member

MxIdle ==
    /\ mx_lock = 0
    /\ mx_thr = [t \in MxCallers |-> MxIdleThread]
    /\ mx_want = {}

MxInit ==
    /\ \E t \in {x \in LoTables : x[3] = ZeroWindow} :
          chip = [ChipReset(0, "miss") EXCEPT !.l2 = t]
    /\ mx_lock = 0
    /\ mx_thr = [t \in MxCallers |-> MxIdleThread]
    /\ mx_want = {p \in 0..7 : And(MxMember(chip.l2), BIT(p)) # 0}

\* A handler is called
MxCall(t) ==
    /\ mx_thr[t].pc = "idle"
    /\ \E kind \in L2Handlers :
          mx_thr' = [mx_thr EXCEPT ![t] =
                        [MxIdleThread EXCEPT !.pc = "l2_lock", !.kind = kind]]
    /\ UNCHANGED << chip, mx_lock, mx_want >>

\* mutex_lock(&mb->l2_lock), and the handler enters its first function
MxL2Lock(t) ==
    LET th == mx_thr[t]
    IN  /\ th.pc = "l2_lock"
        /\ MutexFree(mx_lock)
        /\ mx_lock' = t
        /\ mx_thr' = [mx_thr EXCEPT ![t] =
              CASE th.kind = "fdb_add" ->
                     [th EXCEPT !.pc = "chk", !.fn = "add_uc",
                                !.e = MxUcEntry(MxPort(t))]
                [] th.kind = "fdb_del" ->
                     [th EXCEPT !.pc = "chk", !.fn = "del_uc",
                                !.e = MxUcEntry(0)]
                [] th.kind = "fast_age" -> [th EXCEPT !.pc = "flush"]
                [] OTHER -> [th EXCEPT !.pc = "get"]]
        /\ UNCHANGED << chip, mx_want >>

\* rtl8365mb_l2_get_mc() and the handler's use of its result
MxGet(t) ==
    LET th == mx_thr[t]
        key == MxGroupKey(th.kind)
        keyent == McEntry(key.mac_addr, key.vid, key.ivl, 0, FALSE, FALSE, 0, 0, FALSE)
    IN  /\ th.pc = "get"
        /\ \E r \in {rtl8365mb_table_query(chip, RTL8365MB_TABLE_L2,
                        RTL8365MB_TABLE_OP_READ, RTL8365MB_TABLE_L2_METHOD_MAC,
                        0, 0, rtl8365mb_l2_mc_to_data(keyent))} :
              /\ chip' = r.chip
              /\ mx_thr' = [mx_thr EXCEPT ![t] =
                    MxAfterGet(th, MxPort(t), r.q.ret, keyent,
                               rtl8365mb_l2_data_to_mc(r.q.data))]
        /\ UNCHANGED << mx_lock, mx_want >>

\* One table query of the add or delete function the handler is in
MxQuery(t) ==
    LET th == mx_thr[t]
        call == [kind |-> th.fn, e |-> th.e]
    IN  /\ th.pc \in {"chk", "wr", "rb"}
        /\ \E r \in {rtl8365mb_table_query(chip, RTL8365MB_TABLE_L2, LoOp(th.pc),
                        RTL8365MB_TABLE_L2_METHOD_MAC, 0, 0,
                        LoWords(call, th.pc, th.data))} :
            \E nx \in {LoAfterQuery(th.fn, th.pc, th.new, r.q.ret)} :
              /\ chip' = r.chip
              /\ mx_thr' = [mx_thr EXCEPT ![t] =
                    IF nx.pc = "done" THEN MxExit(th, nx.ret)
                    ELSE [th EXCEPT !.pc = nx.pc, !.new = nx.new,
                                    !.data = r.q.data]]
              /\ mx_want' = IF nx.pc = "done" /\ nx.ret = "OK"
                               /\ th.kind \in {"mdb_add", "mdb_del"}
                            THEN IF th.kind = "mdb_add"
                                 THEN mx_want \cup {MxPort(t)}
                                 ELSE mx_want \ {MxPort(t)}
                            ELSE mx_want
        /\ UNCHANGED mx_lock

\* rtl8365mb_l2_flush(priv, port, 0) of fast_age
MxFlush(t) ==
    /\ mx_thr[t].pc = "flush"
    /\ \E r \in {FlRun(FlCall(MxPort(t), 0), chip)} :
          /\ chip' = r.chip
          /\ mx_thr' = [mx_thr EXCEPT ![t] = MxExit(mx_thr[t], r.f.ret)]
    /\ UNCHANGED << mx_lock, mx_want >>

\* mutex_unlock(&mb->l2_lock) and the return
MxL2Unlock(t) ==
    /\ mx_thr[t].pc = "l2_unlock"
    /\ mx_lock' = 0
    /\ mx_thr' = [mx_thr EXCEPT ![t].pc = "done"]
    /\ UNCHANGED << chip, mx_want >>

MxNext ==
    \E t \in MxCallers :
        \/ MxCall(t) \/ MxL2Lock(t) \/ MxGet(t) \/ MxQuery(t) \/ MxFlush(t)
        \/ MxL2Unlock(t)

\* The thread is at or between the table queries (or the flush) of its
\* handler
MxInSequence(t) == mx_thr[t].pc \in {"get", "chk", "wr", "rb", "flush"}

\* The bit mask of a set of ports
RECURSIVE MxMask(_)
MxMask(ports) ==
    IF ports = {} THEN 0
    ELSE LET p == SetMin(ports) IN BIT(p) + MxMask(ports \ {p})

\* C34: at most one thread is at or between the table queries or the flush
\* of a forwarding-database handler, and that thread holds l2_lock; hence
\* no update of the group is lost: whenever no handler is in its sequence,
\* the members of the group in the table are the initial members and the
\* ports of every mdb_add that returned success
C34_SequencesExclusive ==
    /\ \A t \in MxCallers, u \in MxCallers :
          (MxInSequence(t) /\ MxInSequence(u)) => t = u
    /\ \A t \in MxCallers : MxInSequence(t) => mx_lock = t
    /\ (\A t \in MxCallers : ~MxInSequence(t))
          => MxMember(chip.l2) = MxMask(mx_want)

\* Both threads have added their port to the group, one after the other,
\* and both ports are members
C34_Witness ==
    /\ \A t \in MxCallers :
          /\ mx_thr[t].kind = "mdb_add" /\ mx_thr[t].pc = "done"
          /\ mx_thr[t].ret = "OK"
    /\ And(MxMember(chip.l2), BIT(MxPort(1)) + BIT(MxPort(2)))
          = BIT(MxPort(1)) + BIT(MxPort(2))

\* One thread waits for l2_lock while the other is between its look-up and
\* its write
C34_WitnessWaiting ==
    \E t \in MxCallers, u \in MxCallers :
        /\ mx_thr[t].pc = "wr" /\ mx_thr[u].pc = "l2_lock"
        /\ mx_thr[u].kind = "fast_age"

(***************************************************************************)
(* Port VLAN ids and the synced VLAN membership configs                    *)
(* (rtl8365mb_main.c): rtl8365mb_port_set_pvid with                        *)
(* rtl8365mb_get_synced_vlanmc and rtl8365mb_put_synced_vlanmc.            *)
(*   pv_used    bool used[] of mb->vlanmc_db                               *)
(*   pv_synced  the list mb->vlanmc_synced: for every entry its index, its *)
(*              vlanmc.evid and its refcnt                                 *)
(*   pv_pvid    p->pvid of every port                                      *)
(*   pv_last    the last call: port, vid and return value                  *)
(***************************************************************************)
VARIABLES pv_used, pv_synced, pv_pvid, pv_last
pvVars == << pv_used, pv_synced, pv_pvid, pv_last >>

PvPorts == {0, 1}

\* rtl8365mb_find_synced_vlanmc(): the position in the list of the first
\* entry with the vid, 0 for NULL
rtl8365mb_find_synced_vlanmc(synced, vid) ==
    LET S == {i \in 1..Len(synced) : synced[i].evid = vid}
    IN  IF S = {} THEN 0 ELSE SetMin(S)

\* rtl8365mb_get_synced_vlanmc(): a found entry gets one more reference; a
\* new entry comes from the allocator with refcnt 1, gets one more reference
\* and is appended to the list
rtl8365mb_get_synced_vlanmc(used, synced, vid, nomem) ==
    LET pos == rtl8365mb_find_synced_vlanmc(synced, vid)
    IN  IF pos # 0
        THEN [ret |-> "OK", index |-> synced[pos].index, used |-> used,
              synced |-> [synced EXCEPT ![pos].refcnt = @ + 1]]
        ELSE With(rtl8365mb_vlan_alloc_vlanmc_entry(used, nomem), LAMBDA a :
               IF a.ret # "OK"
               THEN [ret |-> a.ret, index |-> -1, used |-> used, synced |-> synced]
               ELSE [ret |-> "OK", index |-> a.index, used |-> a.used,
                     synced |-> Append(synced, [index |-> a.index, evid |-> vid,
                                                refcnt |-> 1 + 1])])

\* The list without its entry at a position: list_del()
PvListDel(synced, pos) ==
    [i \in 1..(Len(synced) - 1) |-> IF i < pos THEN synced[i] ELSE synced[i + 1]]

\* rtl8365mb_put_synced_vlanmc(): one reference less; an entry whose count
\* reaches zero leaves the list and is freed
rtl8365mb_put_synced_vlanmc(used, synced, vid) ==
    LET pos == rtl8365mb_find_synced_vlanmc(synced, vid)
    IN  IF pos = 0 THEN [used |-> used, synced |-> synced]
        ELSE IF synced[pos].refcnt - 1 = 0
        THEN [used |-> rtl8365mb_vlan_free_vlanmc_entry(used, synced[pos].index),
              synced |-> PvListDel(synced, pos)]
        ELSE [used |-> used, synced |-> [synced EXCEPT ![pos].refcnt = @ - 1]]

\* rtl8365mb_port_set_pvid(priv, port, vid); regfail is a failing
\* regmap_update_bits()
rtl8365mb_port_set_pvid(used, synced, pvid, port, vid, nomem, regfail) ==
    IF pvid[port] = vid
    THEN [ret |-> "OK", used |-> used, synced |-> synced, pvid |-> pvid]
    ELSE With(IF pvid[port] # 0
              THEN rtl8365mb_put_synced_vlanmc(used, synced, pvid[port])
              ELSE [used |-> used, synced |-> synced],
         LAMBDA d :
           IF vid = 0
           THEN [ret |-> IF regfail THEN "EIO" ELSE "OK", used |-> d.used,
                 synced |-> d.synced, pvid |-> [pvid EXCEPT ![port] = 0]]
           ELSE With(rtl8365mb_get_synced_vlanmc(d.used, d.synced, vid, nomem),
                LAMBDA g :
                  IF g.ret # "OK"
                  THEN [ret |-> g.ret, used |-> d.used, synced |-> d.synced,
                        pvid |-> [pvid EXCEPT ![port] = 0]]
                  ELSE [ret |-> IF regfail THEN "EIO" ELSE "OK", used |-> g.used,
                        synced |-> g.synced,
                        pvid |-> [pvid EXCEPT ![port] = vid]]))

\* The VIDs a call may ask for: none, VID 1, and the smallest VID that has
\* no synced entry
PvVids(synced) ==
    LET F == {v \in 1..RTL8365MB_NUM_MEMBERCONFIGS :
                 rtl8365mb_find_synced_vlanmc(synced, v) = 0}
    IN  {0, 1} \cup (IF F = {} THEN {} ELSE {SetMin(F)})

PvIdle ==
    /\ pv_used = [i \in VmcIndices |-> FALSE]
    /\ pv_synced = << >>
    /\ pv_pvid = [p \in PvPorts |-> 0]
    /\ pv_last = [port |-> -1, vid |-> 0, ret |-> "none"]

\* After rtl8365mb_vlan_setup(): the null and the unaware membership config
\* hold indices 0 and 1, no port has a PVID
PvInit ==
    /\ pv_used = [i \in VmcIndices |-> i < 2]
    /\ pv_synced = << >>
    /\ pv_pvid = [p \in PvPorts |-> 0]
    /\ pv_last = [port |-> -1, vid |-> 0, ret |-> "none"]

PvSetPvid ==
    \E port \in PvPorts, vid \in PvVids(pv_synced), nomem \in BOOLEAN,
       regfail \in BOOLEAN :
      \E r \in {rtl8365mb_port_set_pvid(pv_used, pv_synced, pv_pvid, port, vid,
                                        nomem, regfail)} :
         /\ pv_used' = r.used
         /\ pv_synced' = r.synced
         /\ pv_pvid' = r.pvid
         /\ pv_last' = [port |-> port, vid |-> vid, ret |-> r.ret]

PvNext == PvSetPvid

\* C35: a synced membership config is in the list, and its index in use,
\* only while some port has its VID as PVID: once every port that took the
\* VID has released it the entry is gone and the index free, so that a call
\* never finds the 32 indices exhausted
C35_ReleasedEntriesFreed ==
    /\ \A i \in 1..Len(pv_synced) :
          \E p \in PvPorts : pv_pvid[p] = pv_synced[i].evid
    /\ \A i \in VmcIndices :
          (pv_used[i] /\ i >= 2)
             => \E k \in 1..Len(pv_synced) : pv_synced[k].index = i
    /\ pv_last.ret # "ENOSPC"

\* A port took VID 1 as its PVID and released it: the entry is still in the
\* list with one reference, and its index is still in use
C35_EntryLeft ==
    /\ \A p \in PvPorts : pv_pvid[p] = 0
    /\ Len(pv_synced) = 1 /\ pv_synced[1].evid = 1 /\ pv_synced[1].refcnt = 1
    /\ pv_used[pv_synced[1].index]

\* A call found no free index while no port had a PVID
C35_Exhausted ==
    /\ pv_last.ret = "ENOSPC"
    /\ \A p \in PvPorts : pv_pvid[p] = 0
    /\ \A i \in VmcIndices : pv_used[i]

(***************************************************************************)
(* The locks of the register operations: one caller makes one call after   *)
(* another of rtl8365mb_table_query, rtl8365mb_l2_flush,                   *)
(* realtek_smi_read_reg or realtek_smi_write_reg, each of whose register   *)
(* operations or acknowledgements may fail.                                *)
(*   lk_kind    the function called: "query", "flush" or "smi"             *)
(*   lk_st      the call as it runs (the record of the function)           *)
(*   lk_smi     the SMI chip during an SMI call: which bytes it            *)
(*              acknowledges, and how late                                 *)
(*   lk_map     how often priv->map_lock is held                           *)
(*   lk_spin    how often the SMI spinlock priv->lock is held              *)
(*   lk_acq, lk_rel   the lock and unlock operations of the running call   *)
(***************************************************************************)
VARIABLES lk_kind, lk_st, lk_smi, lk_map, lk_spin, lk_acq, lk_rel
lkVars == << lk_kind, lk_st, lk_smi, lk_map, lk_spin, lk_acq, lk_rel >>

\* The calls: a look-up of an absent key, a read by address, a write, a
\* query of no table, a query of eleven words, a flush and the SMI calls
LkCalls ==
    {[kind |-> "query", st |-> q] :
        q \in {TqCall(RTL8365MB_TABLE_L2, RTL8365MB_TABLE_OP_READ,
                      RTL8365MB_TABLE_L2_METHOD_MAC, 0, 0, d) :
                  d \in {rtl8365mb_l2_uc_to_data(L2EntryAbsent)}}
              \cup {TqCall(RTL8365MB_TABLE_CVLAN, RTL8365MB_TABLE_OP_READ,
                           RTL8365MB_TABLE_L2_METHOD_MAC, 2, 0, ZeroData3),
                    TqCall(RTL8365MB_TABLE_ACL_ACTION, RTL8365MB_TABLE_OP_WRITE,
                           RTL8365MB_TABLE_L2_METHOD_MAC, 0, 0, ZeroData3),
                    TqCall(5, RTL8365MB_TABLE_OP_READ,
                           RTL8365MB_TABLE_L2_METHOD_MAC, 0, 0, ZeroData3),
                    TqCall(RTL8365MB_TABLE_L2, RTL8365MB_TABLE_OP_READ,
                           RTL8365MB_TABLE_L2_METHOD_MAC, 0, 0,
                           [i \in 0..RTL8365MB_TABLE_ENTRY_MAX_SIZE |-> 0])}}
    \cup {[kind |-> "flush", st |-> FlCall(port, vid)] :
             port \in {1}, vid \in {0}}
    \cup {[kind |-> "smi", st |-> c] : c \in SmiCalls}

\* One step of realtek_smi_read_reg or realtek_smi_write_reg on the chip c:
\* the lock and the start, a byte sent, a poll for its acknowledge, the two
\* bytes read, or the stop and the unlock
LkSmiStep(th, c) ==
    CASE th.pc = "lock" -> [th EXCEPT !.pc = "byte"]
      [] th.pc = "byte" ->
           [th EXCEPT !.retry_cnt = 0, !.nreads = 0,
                      !.pc = IF SmiNoAck(th) THEN "stop" ELSE "ack",
                      !.ret = IF SmiNoAck(th) THEN "OK" ELSE th.ret]
      [] th.pc = "ack" ->
           SmiAfterAck(th, SmiAckIteration(th.retry_cnt,
                                           SmiAckLevel(c, th.k, th.retry_cnt)))
      [] th.pc = "rd" -> [th EXCEPT !.val = c.val, !.ret = "OK", !.pc = "stop"]
      [] th.pc = "stop" -> [th EXCEPT !.pc = "done"]
      [] OTHER -> th

\* The position of the running call is a lock operation, an unlock
\* operation, or another step
LkAtLock == lk_st.pc = "lock"
LkAtUnlock ==
    IF lk_kind = "smi" THEN lk_st.pc = "stop" ELSE lk_st.pc = "unlock"
LkReturned == lk_st.pc = "done"

\* The running call and the chip after one step
LkStepOf(fail) ==
    CASE lk_kind = "query" ->
           With(TqStep(lk_st, chip, fail), LAMBDA r : [st |-> r.q, chip |-> r.chip])
      [] lk_kind = "flush" ->
           With(FlStep(lk_st, chip, fail), LAMBDA r : [st |-> r.f, chip |-> r.chip])
      [] OTHER -> [st |-> LkSmiStep(lk_st, lk_smi), chip |-> chip]

\* No call has been made
LkNoCall == [kind |-> "none", st |-> [pc |-> "done", ret |-> "none"]]

LkIdle ==
    /\ lk_kind = LkNoCall.kind /\ lk_st = LkNoCall.st
    /\ lk_smi = [silent |-> 5, delay |-> 0, val |-> 0]
    /\ lk_map = 0 /\ lk_spin = 0 /\ lk_acq = 0 /\ lk_rel = 0

\* The switch answers at once or stays busy; the SMI chip of an SMI call
\* acknowledges every byte or stops at the third, at once or late
LkInit ==
    /\ lk_kind = LkNoCall.kind /\ lk_st = LkNoCall.st
    /\ lk_smi = [silent |-> 5, delay |-> 0, val |-> 0]
    /\ \E lat \in {0, PollBudget + 1} :
          chip = [ChipReset(lat, "miss") EXCEPT !.l2 = L2Stored]
    /\ lk_map = 0 /\ lk_spin = 0 /\ lk_acq = 0 /\ lk_rel = 0

\* The caller makes its next call
LkCall ==
    /\ LkReturned
    /\ \E c \in LkCalls :
          /\ lk_kind' = c.kind /\ lk_st' = c.st
          /\ IF c.kind = "smi" THEN lk_smi' \in {x \in SmiChips : x.silent \in {2, 5}}
             ELSE lk_smi' = [silent |-> 5, delay |-> 0, val |-> 0]
    /\ lk_acq' = 0 /\ lk_rel' = 0
    /\ UNCHANGED << chip, lk_map, lk_spin >>

\* mutex_lock(&priv->map_lock) or spin_lock_irqsave(&priv->lock)
LkAcquire ==
    /\ ~LkReturned /\ LkAtLock
    /\ IF lk_kind = "smi" THEN SpinFree(lk_spin) ELSE MutexFree(lk_map)
    /\ lk_st' = LkStepOf(FALSE).st
    /\ lk_map' = IF lk_kind = "smi" THEN lk_map ELSE lk_map + 1
    /\ lk_spin' = IF lk_kind = "smi" THEN lk_spin + 1 ELSE lk_spin
    /\ lk_acq' = lk_acq + 1
    /\ UNCHANGED << chip, lk_kind, lk_smi, lk_rel >>

\* A step between the lock operations: the argument checks, a register
\* operation that may fail, a byte, a poll
LkStep ==
    /\ ~LkReturned /\ ~LkAtLock /\ ~LkAtUnlock
    /\ \E fail \in BOOLEAN :
       \E r \in {LkStepOf(fail)} : lk_st' = r.st /\ chip' = r.chip
    /\ UNCHANGED << lk_kind, lk_smi, lk_map, lk_spin, lk_acq, lk_rel >>

\* mutex_unlock(&priv->map_lock) or spin_unlock_irqrestore(&priv->lock),
\* and the return
LkRelease ==
    /\ ~LkReturned /\ LkAtUnlock
    /\ lk_st' = LkStepOf(FALSE).st
    /\ lk_map' = IF lk_kind = "smi" THEN lk_map ELSE lk_map - 1
    /\ lk_spin' = IF lk_kind = "smi" THEN lk_spin - 1 ELSE lk_spin
    /\ lk_rel' = lk_rel + 1
    /\ UNCHANGED << chip, lk_kind, lk_smi, lk_acq >>

LkNext == LkCall \/ LkAcquire \/ LkStep \/ LkRelease

\* C36: a call that has returned, with whatever result, has released every
\* lock it took, once: neither lock is held, the call has unlocked as often
\* as it locked and at most once; a running call holds at most the one lock
\* of its function, and never unlocks what it does not hold
C36_LocksReleased ==
    /\ lk_map \in {0, 1} /\ lk_spin \in {0, 1}
    /\ lk_rel <= lk_acq /\ lk_acq <= 1
    /\ lk_map + lk_spin = lk_acq - lk_rel
    /\ lk_kind = "smi" => lk_map = 0
    /\ lk_kind \in {"query", "flush"} => lk_spin = 0
    /\ LkReturned => /\ lk_map = 0 /\ lk_spin = 0
                     /\ lk_acq = lk_rel
                     /\ lk_st.ret \notin {"E2BIG", "EINVAL", "none"} => lk_acq = 1

\* A query that failed with a transport error has returned, lock released
C36_Witness ==
    /\ lk_kind = "query" /\ LkReturned /\ lk_st.ret = "EIO"
    /\ lk_acq = 1 /\ lk_rel = 1 /\ lk_map = 0

\* A look-up that found nothing has returned
C36_WitnessNotFound ==
    /\ lk_kind = "query" /\ LkReturned /\ lk_st.ret = "ENOENT" /\ lk_rel = 1

\* A flush whose busy poll timed out has returned
C36_WitnessFlushTimeout ==
    /\ lk_kind = "flush" /\ LkReturned /\ lk_st.ret = "ETIMEDOUT" /\ lk_rel = 1

\* An SMI write whose acknowledgement timed out has returned
C36_WitnessAckTimeout ==
    /\ lk_kind = "smi" /\ LkReturned /\ lk_st.kind = "write"
    /\ lk_st.ret = "ETIMEDOUT" /\ lk_rel = 1 /\ lk_spin = 0

(***************************************************************************)
(* rtl8365mb_acl_get_rule called by a second thread while                  *)
(* rtl8365mb_acl_set_rule replaces the rule at the same index. Each table  *)
(* query and each register access holds the register-map lock for itself   *)
(* and is one step.                                                        *)
(*   gr_pc     the reader: "idle", then "data", "care", "negate" (the      *)
(*             access it makes next), "done"                               *)
(*   gr_data, gr_care   its locals data_data and care_data                 *)
(*   gr_out    the rule it returned                                        *)
(*   gr_ret    its return value                                            *)
(***************************************************************************)
VARIABLES gr_pc, gr_data, gr_care, gr_out, gr_ret
grVars == << gr_pc, gr_data, gr_care, gr_out, gr_ret >>

GrIdle ==
    /\ gr_pc = "idle" /\ gr_data = ZeroWindow /\ gr_care = ZeroWindow
    /\ gr_out = ZeroRule /\ gr_ret = "none"

\* The rules set while the reader runs: with the same port masks and
\* template, enabled or not, over a stored rule or an empty index 0
GrInit ==
    /\ GrIdle
    /\ acl_idx = 0
    /\ acl_rule.template = 0 /\ ~acl_rule.negate
    /\ acl_rule.care.portmask = 255 /\ acl_rule.data.portmask = 255

\* rtl8365mb_acl_get_rule is called
GrCall ==
    /\ gr_pc = "idle"
    /\ gr_pc' = "data"
    /\ UNCHANGED << chip, gr_data, gr_care, gr_out, gr_ret >>

\* The query for the data row
GrReadData ==
    /\ gr_pc = "data"
    /\ \E r \in {AclReadRow(chip, RTL8365MB_ACL_RULE_ENTRY_DATA_ADDR(acl_idx))} :
          /\ chip' = r.chip
          /\ gr_data' = r.q.data
          /\ gr_ret' = IF r.q.ret = "OK" THEN gr_ret ELSE r.q.ret
          /\ gr_pc' = IF r.q.ret = "OK" THEN "care" ELSE "done"
    /\ UNCHANGED << gr_care, gr_out >>

\* The query for the care row
GrReadCare ==
    /\ gr_pc = "care"
    /\ \E r \in {AclReadRow(chip, RTL8365MB_ACL_RULE_ENTRY_CARE_ADDR(acl_idx))} :
          /\ chip' = r.chip
          /\ gr_care' = r.q.data
          /\ gr_ret' = IF r.q.ret = "OK" THEN gr_ret ELSE r.q.ret
          /\ gr_pc' = IF r.q.ret = "OK" THEN "negate" ELSE "done"
    /\ UNCHANGED << gr_data, gr_out >>

\* The rule is unpacked, the negate bit is read, and the function returns
GrNegate ==
    /\ gr_pc = "negate"
    /\ gr_out' = AclUnpack(gr_data, gr_care,
                           rtl8365mb_acl_get_rule_negate(chip, acl_idx))
    /\ gr_ret' = "OK"
    /\ gr_pc' = "done"
    /\ UNCHANGED << chip, gr_data, gr_care >>

GrNext == GrCall \/ GrReadData \/ GrReadCare \/ GrNegate

\* What rtl8365mb_acl_get_rule returns for a rule that was set and is not
\* being replaced
GrStored(rule) == AclUnpack(AclDataRow(rule), AclCareRow(rule), rule.negate)

\* C37: a rule returned as enabled by rtl8365mb_acl_get_rule while
\* rtl8365mb_acl_set_rule runs has the care part and the data part of one
\* rule, the rule stored before or the rule being set
C37_NoTornRule ==
    (gr_pc = "done" /\ gr_ret = "OK" /\ gr_out.enabled)
        => \E r \in {acl_prev, acl_rule} :
              /\ gr_out.care = GrStored(r).care
              /\ gr_out.data = GrStored(r).data

\* The reader has returned an enabled rule made of the data row of the rule
\* stored before and the care row of the rule being set
C37_TornRule ==
    /\ gr_pc = "done" /\ gr_ret = "OK" /\ gr_out.enabled
    /\ acl_prev.enabled /\ acl_rule.enabled
    /\ gr_data = AclDataRow(acl_prev)
    /\ gr_care = AclCareRow(acl_rule)
    /\ AclCareRow(acl_rule) # AclCareRow(acl_prev)

(***************************************************************************)
(* The rows of the ACL rule table: a rule is stored at index ad_j, then a  *)
(* rule is set or erased at index ad_i.                                    *)
(*   ad_i, ad_j   the two rule indices                                     *)
(*   ad_rule      the rule set at ad_i; a rule that is not enabled erases  *)
(*   ad_pc        "stored" (the rule at ad_j is in the table), "set"       *)
(***************************************************************************)
VARIABLES ad_i, ad_j, ad_rule, ad_pc
adVars == << ad_i, ad_j, ad_rule, ad_pc >>

AdIndices == 0..(RTL8365MB_NUM_ACL_CONFIGS - 1)

\* The rule stored at ad_j: enabled, every care bit set, mixed data
AdStoredRule ==
    [enabled |-> TRUE, negate |-> FALSE, template |-> 7,
     care |-> [portmask |-> 2047, fields |-> AclFieldsOnes],
     data |-> [portmask |-> 255, fields |-> AclFieldsMixed]]

\* The rules set at ad_i: an enabled rule with other rows, and no rule
AdRules ==
    {ZeroRule,
     [enabled |-> TRUE, negate |-> FALSE, template |-> 0,
      care |-> [portmask |-> 255, fields |-> AclFieldsMixed],
      data |-> [portmask |-> 256, fields |-> AclFieldsOnes]]}

\* The care-row and data-row addresses of a set of rule indices
AdAddrs(S) ==
    {RTL8365MB_ACL_RULE_ENTRY_CARE_ADDR(x) : x \in S}
    \cup {RTL8365MB_ACL_RULE_ENTRY_DATA_ADDR(x) : x \in S}

AdIdle ==
    /\ ad_i = 0 /\ ad_j = 0 /\ ad_rule = ZeroRule /\ ad_pc = "idle"

AdInit ==
    /\ ad_i \in AdIndices
    /\ ad_j \in {0, 31, 32, 63, 64, RTL8365MB_NUM_ACL_CONFIGS - 1}
    /\ ad_rule \in AdRules
    /\ ad_pc = "stored"
    /\ chip = rtl8365mb_acl_set_rule(ChipReset(0, "wrap"), ad_j, AdStoredRule).chip

\* rtl8365mb_acl_set_rule(priv, ad_i, &ad_rule)
AdSetRule ==
    /\ ad_pc = "stored"
    /\ chip' = rtl8365mb_acl_set_rule(chip, ad_i, ad_rule).chip
    /\ ad_pc' = "set"
    /\ UNCHANGED << ad_i, ad_j, ad_rule >>

AdNext == AdSetRule

\* C39: the care-row and data-row addresses of the rule indices 0..95 are
\* 192 different addresses, those of two different indices have none in
\* common, and setting or erasing a rule leaves the care row and the data
\* row of a rule at another index as they were
C39_RowsDistinct ==
    /\ Cardinality(AdAddrs(AdIndices)) = 2 * RTL8365MB_NUM_ACL_CONFIGS
    /\ ad_i # ad_j => AdAddrs({ad_i}) \cap AdAddrs({ad_j}) = {}
    /\ RTL8365MB_ACL_RULE_ENTRY_CARE_ADDR(ad_i) # RTL8365MB_ACL_RULE_ENTRY_DATA_ADDR(ad_i)
    /\ (ad_pc \in {"stored", "set"} /\ ad_i # ad_j)
          => /\ TblRow(chip.acl, RTL8365MB_ACL_RULE_ENTRY_CARE_ADDR(ad_j))
                   = AclCareRow(AdStoredRule)
             /\ TblRow(chip.acl, RTL8365MB_ACL_RULE_ENTRY_DATA_ADDR(ad_j))
                   = AclDataRow(AdStoredRule)

\* A rule was set at index 95 next to the rule stored at index 64: its rows
\* are at 159 and 191, the rows of the stored rule at 128 and 160
C39_Witness ==
    /\ ad_pc = "set" /\ ad_rule.enabled
    /\ ad_i = RTL8365MB_NUM_ACL_CONFIGS - 1 /\ ad_j = 64
    /\ TblRow(chip.acl, RTL8365MB_ACL_RULE_ENTRY_CARE_ADDR(ad_i)) = AclCareRow(ad_rule)
    /\ TblRow(chip.acl, RTL8365MB_ACL_RULE_ENTRY_DATA_ADDR(ad_i)) = AclDataRow(ad_rule)
    /\ AdAddrs({ad_i}) = {159, 191} /\ AdAddrs({ad_j}) = {128, 160}

----------------------------------------------------------------------------
\* The specifications: one per part of the driver, the other parts at rest

vars ==
    << chip, l2cVars, vlanVars, aclVars, tableVars, walkVars, smiVars, mdioVars,
       portVars, vsetVars, soloVars, updVars, vmcVars, stVars, loVars,
       mxVars, pvVars, lkVars, grVars, adVars >>

\* The parts whose specification gives the chip its first state
ChipParts == {"vlan", "acl", "table", "walk", "vset", "solo", "upd", "l2op", "mdb", "locks",
              "aclget", "acladdr"}

\* Every part but one is at rest
OthersIdle(part) ==
    /\ IF part = "l2c" THEN TRUE ELSE L2CodecIdle
    /\ IF part = "vlan" THEN TRUE ELSE VlanIdle
    /\ IF part = "acl" THEN TRUE ELSE AclIdle
    /\ IF part = "table" THEN TRUE ELSE TableIdle
    /\ IF part = "walk" THEN TRUE ELSE WalkIdle
    /\ IF part = "smi" THEN TRUE ELSE SmiIdle
    /\ IF part = "mdio" THEN TRUE ELSE MdioIdle
    /\ IF part = "port" THEN TRUE ELSE PortIdle
    /\ IF part = "vset" THEN TRUE ELSE VsetIdle
    /\ IF part = "solo" THEN TRUE ELSE SoloIdle
    /\ IF part = "upd" THEN TRUE ELSE UpdIdle
    /\ IF part = "vmc" THEN TRUE ELSE VmcIdle
    /\ IF part = "status" THEN TRUE ELSE StatusIdle
    /\ IF part = "l2op" THEN TRUE ELSE LoIdle
    /\ IF part = "mdb" THEN TRUE ELSE MxIdle
    /\ IF part = "pvid" THEN TRUE ELSE PvIdle
    /\ IF part = "locks" THEN TRUE ELSE LkIdle
    /\ IF part = "aclget" THEN TRUE ELSE GrIdle
    /\ IF part = "acladdr" THEN TRUE ELSE AdIdle
    /\ IF part \in ChipParts THEN TRUE ELSE chip = ChipReset(0, "wrap")

\* Every part but one stays at rest
OthersUnchanged(part) ==
    /\ IF part = "l2c" THEN TRUE ELSE UNCHANGED l2cVars
    /\ IF part = "vlan" THEN TRUE ELSE UNCHANGED vlanVars
    /\ IF part = "acl" THEN TRUE ELSE UNCHANGED aclVars
    /\ IF part = "table" THEN TRUE ELSE UNCHANGED tableVars
    /\ IF part = "walk" THEN TRUE ELSE UNCHANGED walkVars
    /\ IF part = "smi" THEN TRUE ELSE UNCHANGED smiVars
    /\ IF part = "mdio" THEN TRUE ELSE UNCHANGED mdioVars
    /\ IF part = "port" THEN TRUE ELSE UNCHANGED portVars
    /\ IF part = "vset" THEN TRUE ELSE UNCHANGED vsetVars
    /\ IF part = "solo" THEN TRUE ELSE UNCHANGED soloVars
    /\ IF part = "upd" THEN TRUE ELSE UNCHANGED updVars
    /\ IF part = "vmc" THEN TRUE ELSE UNCHANGED vmcVars
    /\ IF part = "status" THEN TRUE ELSE UNCHANGED stVars
    /\ IF part = "l2op" THEN TRUE ELSE UNCHANGED loVars
    /\ IF part = "mdb" THEN TRUE ELSE UNCHANGED mxVars
    /\ IF part = "pvid" THEN TRUE ELSE UNCHANGED pvVars
    /\ IF part = "locks" THEN TRUE ELSE UNCHANGED lkVars
    /\ IF part = "aclget" THEN TRUE ELSE UNCHANGED grVars
    /\ IF part = "acladdr" THEN TRUE ELSE UNCHANGED adVars
    /\ IF part \in ChipParts THEN TRUE ELSE UNCHANGED chip

SpecL2CodecInit == L2CodecInit /\ OthersIdle("l2c")

SpecL2CodecNext == L2CodecNext /\ OthersUnchanged("l2c")

SpecL2Codec == SpecL2CodecInit /\ [][SpecL2CodecNext]_vars

SpecVlanInit == VlanInit /\ OthersIdle("vlan")

SpecVlanNext == VlanNext /\ OthersUnchanged("vlan")

SpecVlan == SpecVlanInit /\ [][SpecVlanNext]_vars

SpecAclInit == AclInit /\ OthersIdle("acl")

SpecAclNext == AclNext /\ OthersUnchanged("acl")

SpecAcl == SpecAclInit /\ [][SpecAclNext]_vars

SpecTableInit == TableInit /\ OthersIdle("table")

SpecTableNext == TableNext /\ OthersUnchanged("table")

SpecTable == SpecTableInit /\ [][SpecTableNext]_vars

SpecWalkInit == WalkInit /\ OthersIdle("walk")

SpecWalkNext == WalkNext /\ OthersUnchanged("walk")

SpecWalk == SpecWalkInit /\ [][SpecWalkNext]_vars

SpecSmiInit == SmiInit /\ OthersIdle("smi")

SpecSmiNext == SmiNext /\ OthersUnchanged("smi")

SpecSmi == SpecSmiInit /\ [][SpecSmiNext]_vars

SpecMdioInit == MdioInit /\ OthersIdle("mdio")

SpecMdioNext == MdioNext /\ OthersUnchanged("mdio")

SpecMdio == SpecMdioInit /\ [][SpecMdioNext]_vars

SpecPortInit == PortInit /\ OthersIdle("port")

SpecPortNext == PortNext /\ OthersUnchanged("port")

SpecPort == SpecPortInit /\ [][SpecPortNext]_vars

\* The scheduler runs every handler that can take a step; a mutex hands
\* itself to a waiter that keeps being passed over, so a caller that finds
\* the lock free again and again gets it
PortFairness ==
    \A t \in PortCallers :
        /\ WF_vars(PortRun(t) /\ OthersUnchanged("port"))
        /\ SF_vars(PortL2Lock(t) /\ OthersUnchanged("port"))
        /\ SF_vars(PortMapLock(t) /\ OthersUnchanged("port"))

SpecPortFair == SpecPort /\ PortFairness

SpecVsetInit == VsetInit /\ OthersIdle("vset")

SpecVsetNext == VsetNext /\ OthersUnchanged("vset")

SpecVset == SpecVsetInit /\ [][SpecVsetNext]_vars

SpecSoloInit == SoloInit /\ OthersIdle("solo")

SpecSoloNext == SoloNext /\ OthersUnchanged("solo")

SpecSolo == SpecSoloInit /\ [][SpecSoloNext]_vars

SpecUpdInit == UpdInit /\ OthersIdle("upd")

SpecUpdNext == UpdNext /\ OthersUnchanged("upd")

SpecUpd == SpecUpdInit /\ [][SpecUpdNext]_vars

SpecVmcInit == VmcInit /\ OthersIdle("vmc")

SpecVmcNext == VmcNext /\ OthersUnchanged("vmc")

SpecVmc == SpecVmcInit /\ [][SpecVmcNext]_vars

SpecStatusInit == StatusInit /\ OthersIdle("status")

SpecStatusNext == StatusNext /\ OthersUnchanged("status")

SpecStatus == SpecStatusInit /\ [][SpecStatusNext]_vars

SpecL2OpInit == LoInit /\ OthersIdle("l2op")
SpecL2OpNext == LoNext /\ OthersUnchanged("l2op")
SpecL2Op == SpecL2OpInit /\ [][SpecL2OpNext]_vars

SpecMdbInit == MxInit /\ OthersIdle("mdb")
SpecMdbNext == MxNext /\ OthersUnchanged("mdb")
SpecMdb == SpecMdbInit /\ [][SpecMdbNext]_vars

SpecPvidInit == PvInit /\ OthersIdle("pvid")
SpecPvidNext == PvNext /\ OthersUnchanged("pvid")
SpecPvid == SpecPvidInit /\ [][SpecPvidNext]_vars

SpecLocksInit == LkInit /\ OthersIdle("locks")
SpecLocksNext == LkNext /\ OthersUnchanged("locks")
SpecLocks == SpecLocksInit /\ [][SpecLocksNext]_vars

\* The setting of a rule with a concurrent reader
SpecAclGetInit == AclInit /\ GrInit /\ OthersIdle("acl")
SpecAclGetNext ==
    \/ AclNext /\ OthersUnchanged("acl")
    \/ GrNext /\ OthersUnchanged("aclget")
SpecAclGet == SpecAclGetInit /\ [][SpecAclGetNext]_vars

SpecAclAddrInit == AdInit /\ OthersIdle("acladdr")
SpecAclAddrNext == AdNext /\ OthersUnchanged("acladdr")
SpecAclAddr == SpecAclAddrInit /\ [][SpecAclAddrNext]_vars

====
